---- MODULE Spec2Model ----
(***************************************************************************)
(* Model of the retrieval-and-generation layer of src/query_kb.py:         *)
(* identifier extraction, intent classification, filter construction,      *)
(* retrieve() and retrieve_and_generate().                                 *)
(*                                                                         *)
(* Text is modelled at character level: a Python str is a sequence of      *)
(* one-character strings, so that re.search, str.lower, str.upper and the  *)
(* substring test `a in b` are computed, not assumed.  The empty sequence  *)
(* stands for both None and "" where the code only tests truthiness.       *)
(***************************************************************************)
EXTENDS Integers, Sequences, FiniteSets, TLC

(***************************************************************************)
(* Bounds of the model.                                                    *)
(***************************************************************************)
\* a query is 1..MaxWords vocabulary words joined by single spaces
MaxWords == 2
\* top_k is drawn from 1..MaxTopK
MaxTopK == 2

\* the number of eval cases evaluate() runs, from the head of EVAL_CASES
MaxCases == 2

(***************************************************************************)
(* Characters and strings.                                                 *)
(***************************************************************************)
UpperLetters ==
  <<"A","B","C","D","E","F","G","H","I","J","K","L","M",
    "N","O","P","Q","R","S","T","U","V","W","X","Y","Z">>

LowerLetters ==
  <<"a","b","c","d","e","f","g","h","i","j","k","l","m",
    "n","o","p","q","r","s","t","u","v","w","x","y","z">>

\* \d (ASCII)
Digits == {"0","1","2","3","4","5","6","7","8","9"}

\* the lower-case letter of each upper-case letter
LowerOf ==
  [c \in { UpperLetters[i] : i \in 1..26 } |->
     LowerLetters[CHOOSE i \in 1..26 : UpperLetters[i] = c]]

\* the upper-case letter of each lower-case letter
UpperOf ==
  [c \in { LowerLetters[i] : i \in 1..26 } |->
     UpperLetters[CHOOSE i \in 1..26 : LowerLetters[i] = c]]

LowerChar(c) == IF c \in DOMAIN LowerOf THEN LowerOf[c] ELSE c

UpperChar(c) == IF c \in DOMAIN UpperOf THEN UpperOf[c] ELSE c

\* str.lower()
lower(s) == [i \in 1..Len(s) |-> LowerChar(s[i])]

\* str.upper()
upper(s) == [i \in 1..Len(s) |-> UpperChar(s[i])]

\* Python `sub in s` on strings
In(sub, s) ==
  \E i \in 0..(Len(s) - Len(sub)) : \A j \in 1..Len(sub) : s[i + j] = sub[j]

\* None (and the empty string, equally falsy)
None == << >>

Truthy(s) == s # << >>

SetMax(S) == CHOOSE x \in S : \A y \in S : y <= x

SetMin(S) == CHOOSE x \in S : \A y \in S : x <= y

(***************************************************************************)
(* Regular expressions of extract_framework_id / extract_control_id.       *)
(***************************************************************************)
\* [A-Z] under re.IGNORECASE
Letters == { UpperLetters[i] : i \in 1..26 } \cup { LowerLetters[i] : i \in 1..26 }

\* last index of the longest run of characters of class that starts at
\* index i of s; i - 1 when s[i] is not in class (greedy `+`)
RunEnd(s, i, class) ==
  LET E == { e \in i..Len(s) : \A j \in i..e : s[j] \in class }
  IN  IF E = {} THEN i - 1 ELSE SetMax(E)

\* s[i..] starts with lit, ignoring case (lit given in lower case)
LitAt(s, i, lit) ==
  /\ i + Len(lit) - 1 <= Len(s)
  /\ \A j \in 1..Len(lit) : LowerChar(s[i + j - 1]) = lit[j]

\* "ai-"
AI_PREFIX == <<"a","i","-">>

\* "ai-ctrl-"
CTRL_PREFIX == <<"a","i","-","c","t","r","l","-">>

\* end index of the match of AI-[A-Z]+-\d+ (IGNORECASE) that starts at
\* index i of s, 0 when the pattern does not match there
FrameworkMatchEnd(s, i) ==
  IF ~LitAt(s, i, AI_PREFIX) THEN 0
  ELSE LET l == RunEnd(s, i + 3, Letters)
       IN  IF l < i + 3 \/ l + 1 > Len(s) THEN 0
           ELSE IF s[l + 1] # "-" THEN 0
           ELSE LET d == RunEnd(s, l + 2, Digits)
                IN  IF d < l + 2 THEN 0 ELSE d

\* end index of the match of AI-CTRL-\d+ (IGNORECASE) that starts at index
\* i of s, 0 when the pattern does not match there
ControlMatchEnd(s, i) ==
  IF ~LitAt(s, i, CTRL_PREFIX) THEN 0
  ELSE LET d == RunEnd(s, i + 8, Digits)
       IN  IF d < i + 8 THEN 0 ELSE d

\* the two patterns
MatchEnd(pattern, s, i) ==
  IF pattern = "AI-[A-Z]+-\\d+" THEN FrameworkMatchEnd(s, i) ELSE ControlMatchEnd(s, i)

\* re.search(pattern, s, re.IGNORECASE).group(1): the leftmost match, None
\* without a match
ReSearch(pattern, s) ==
  LET starts == { i \in 1..Len(s) : MatchEnd(pattern, s, i) > 0 }
  IN  IF starts = {} THEN None
      ELSE LET i == SetMin(starts) IN SubSeq(s, i, MatchEnd(pattern, s, i))

\* extract_framework_id that returns the match as it is written in the query
extract_framework_id_KeepCase(q) ==
  ReSearch("AI-[A-Z]+-\\d+", q)

extract_framework_id(q) ==
  LET m == ReSearch("AI-[A-Z]+-\\d+", q)
  IN  IF m # None THEN upper(m) ELSE None

extract_control_id(q) ==
  LET m == ReSearch("AI-CTRL-\\d+", q)
  IN  IF m # None THEN upper(m) ELSE None

(***************************************************************************)
(* Intent classification.                                                  *)
(***************************************************************************)
usecase_keywords ==
  << <<"u","s","e"," ","c","a","s","e">>,
    <<"u","s","e","c","a","s","e">>,
    <<"u","s","e","-","c","a","s","e">>,
    <<"a","s","s","e","s","s","m","e","n","t">>,
    <<"m","o","d","e","l"," ","n","a","m","e">>,
    <<"m","o","d","e","l","n","a","m","e">>,
    <<"a","i"," ","p","r","o","j","e","c","t">>,
    <<"i","n","v","e","n","t","o","r","y">>,
    <<"d","e","s","i","g","n"," ","d","o","c","u","m","e","n","t">>,
    <<"t","c","o">>,
    <<"r","o","l","l","o","u","t">>,
    <<"j","i","r","a"," ","s","t","o","r","i","e","s">>,
    <<"b","i","l","l"," ","o","f"," ","m","a","t","e","r","i","a","l">>,
    <<"b","o","m">>,
    <<"r","i","s","k"," ","a","n","d"," ","c","o","n","t","r","o","l","s">>,
    <<"o","v","e","r","a","l","l"," ","r","i","s","k">>,
    <<"a","i"," ","c","a","t","e","g","o","r","y">> >>

\* any(pred(x) for x in seq)
AnyKeywordIn(keywords, text) == \E i \in 1..Len(keywords) : In(keywords[i], text)

is_usecase_query(q) == AnyKeywordIn(usecase_keywords, lower(q))

NarrowKeywords ==
  << <<"o","v","e","r","a","l","l"," ","r","i","s","k">>,
    <<"r","i","s","k"," ","l","e","v","e","l">>,
    <<"a","i"," ","c","a","t","e","g","o","r","y">>,
    <<"s","t","a","t","u","s">>,
    <<"d","e","p","a","r","t","m","e","n","t">>,
    <<"s","e","c","t","o","r">>,
    <<"v","e","n","d","o","r">>,
    <<"p","r","i","o","r","i","t","y">>,
    <<"c","l","o","u","d"," ","p","r","o","v","i","d","e","r">>,
    <<"p","l","a","t","f","o","r","m">> >>

MediumKeywords ==
  << <<"l","i","s","t"," ","c","o","n","t","r","o","l","s">>,
    <<"l","i","s","t"," ","f","r","a","m","e","w","o","r","k","s">>,
    <<"j","i","r","a"," ","s","t","o","r","i","e","s">>,
    <<"a","c","c","e","p","t","a","n","c","e"," ","c","r","i","t","e","r","i","a">>,
    <<"m","e","t","r","i","c","s">>,
    <<"r","o","l","l","o","u","t">>,
    <<"e","p","i","c","s">>,
    <<"d","a","t","a"," ","l","a","b","e","l","s">>,
    <<"b","i","l","l"," ","o","f"," ","m","a","t","e","r","i","a","l">>,
    <<"b","o","m">>,
    <<"s","u","m","m","a","r","y">>,
    <<"d","e","s","c","r","i","b","e">> >>

DeepKeywords ==
  << <<"d","e","s","i","g","n"," ","d","o","c","u","m","e","n","t">>,
    <<"t","c","o">>,
    <<"c","o","s","t">>,
    <<"a","r","c","h","i","t","e","c","t","u","r","e">>,
    <<"a","p","i"," ","d","e","s","i","g","n">>,
    <<"s","e","c","u","r","i","t","y">>,
    <<"c","o","m","p","l","i","a","n","c","e">>,
    <<"r","i","s","k"," ","a","n","d"," ","c","o","n","t","r","o","l","s">>,
    <<"f","u","l","l"," ","d","e","t","a","i","l">>,
    <<"e","v","e","r","y","t","h","i","n","g">> >>

\* QUERY_TOKEN_PROFILES with the pairs of the narrow and the deep group
\* exchanged
QUERY_TOKEN_PROFILES_Swapped ==
  << [keywords |-> NarrowKeywords, s_tok |-> 3000, a_tok |-> 8000],
     [keywords |-> MediumKeywords, s_tok |-> 1500, a_tok |-> 4000],
     [keywords |-> DeepKeywords,   s_tok |-> 500,  a_tok |-> 1000] >>

\* (keywords, summary_max_tokens, answer_max_tokens), narrow -> medium -> deep
QUERY_TOKEN_PROFILES ==
  << [keywords |-> NarrowKeywords, s_tok |-> 500,  a_tok |-> 1000],
     [keywords |-> MediumKeywords, s_tok |-> 1500, a_tok |-> 4000],
     [keywords |-> DeepKeywords,   s_tok |-> 3000, a_tok |-> 8000] >>

\* the fallback pair of _token_budget_for_query
DefaultBudget == [summary_tok |-> 1500, answer_tok |-> 4000]

\* BudgetLoop that stops at the first matching profile
RECURSIVE BudgetLoop_FirstMatch(_, _, _)
BudgetLoop_FirstMatch(q_lower, i, cur) ==
  IF i > Len(QUERY_TOKEN_PROFILES) THEN cur
  ELSE LET p == QUERY_TOKEN_PROFILES[i]
       IN  IF AnyKeywordIn(p.keywords, q_lower)
           THEN [summary_tok |-> p.s_tok, answer_tok |-> p.a_tok]
           ELSE BudgetLoop_FirstMatch(q_lower, i + 1, cur)

\* the for loop of _token_budget_for_query from profile i on, with the
\* running pair cur
RECURSIVE BudgetLoop(_, _, _)
BudgetLoop(q_lower, i, cur) ==
  IF i > Len(QUERY_TOKEN_PROFILES) THEN cur
  ELSE LET p == QUERY_TOKEN_PROFILES[i]
       IN  IF AnyKeywordIn(p.keywords, q_lower)
           THEN BudgetLoop(q_lower, i + 1, [summary_tok |-> p.s_tok, answer_tok |-> p.a_tok])
           ELSE BudgetLoop(q_lower, i + 1, cur)

token_budget_for_query(q) == BudgetLoop(lower(q), 1, DefaultBudget)

(***************************************************************************)
(* Query vocabulary.                                                       *)
(***************************************************************************)
\* "AI-ADF-013"
W_FW13 == <<"A","I","-","A","D","F","-","0","1","3">>

\* "ai-adf-024"
W_fw24 == <<"a","i","-","a","d","f","-","0","2","4">>

\* "AI-CTRL-00001"
W_CTRL1 == <<"A","I","-","C","T","R","L","-","0","0","0","0","1">>

\* "status"
W_status == <<"s","t","a","t","u","s">>

\* "List controls"
W_list_controls == <<"L","i","s","t"," ","c","o","n","t","r","o","l","s">>

\* "TCO"
W_tco == <<"T","C","O">>

\* "frameworks"
W_frameworks == <<"f","r","a","m","e","w","o","r","k","s">>

Words ==
  { W_FW13, W_fw24, W_CTRL1, W_status, W_list_controls, W_tco, W_frameworks }

\* the sequences without repetition of at most n elements of S
RECURSIVE Arrangements(_, _)
Arrangements(S, n) ==
  IF n = 0 THEN { << >> }
  ELSE { << >> } \cup UNION { { <<x>> \o t : t \in Arrangements(S \ {x}, n - 1) } : x \in S }

\* the words of ws joined by single spaces
RECURSIVE JoinWords(_)
JoinWords(ws) ==
  IF Len(ws) = 1 THEN ws[1] ELSE ws[1] \o <<" ">> \o JoinWords(Tail(ws))

\* the queries: 1..MaxWords distinct words in any order
Queries == { JoinWords(ws) : ws \in Arrangements(Words, MaxWords) \ { << >> } }

(***************************************************************************)
(* The knowledge base behind bedrock_agent.retrieve.                       *)
(***************************************************************************)
\* "AI-ADF-013"
ID_FW13 == <<"A","I","-","A","D","F","-","0","1","3">>

\* "AI-ADF-024"
ID_FW24 == <<"A","I","-","A","D","F","-","0","2","4">>

\* "AI-CTRL-00001"
ID_CTRL1 == <<"A","I","-","C","T","R","L","-","0","0","0","0","1">>

\* "s3://kb/framework-controls/AI-ADF-013.md"
URI_FW13 == <<"s","3",":","/","/","k","b","/","f","r","a","m","e","w","o","r","k","-","c","o","n","t","r","o","l","s","/","A","I","-","A","D","F","-","0","1","3",".","m","d">>

\* "s3://kb/framework-controls/AI-ADF-024.md"
URI_FW24 == <<"s","3",":","/","/","k","b","/","f","r","a","m","e","w","o","r","k","-","c","o","n","t","r","o","l","s","/","A","I","-","A","D","F","-","0","2","4",".","m","d">>

\* "s3://kb/controls/AI-CTRL-00001.md"
URI_CTRL1 == <<"s","3",":","/","/","k","b","/","c","o","n","t","r","o","l","s","/","A","I","-","C","T","R","L","-","0","0","0","0","1",".","m","d">>

\* "N/A"
NA == <<"N","/","A">>

\* An optional field of a service item is << >> (absent) or <<value>>.
Absent == << >>

\* dict.get(key, default) on an optional field
Get(opt, default) == IF opt = Absent THEN default ELSE opt[1]

\* The indexed passages: the framework documents of AI-ADF-013 and
\* AI-ADF-024, the control document AI-CTRL-00001 (attached to AI-ADF-013)
\* and a use-case document that is not stored in S3 and has no score.
\* Scores are in units of 0.00001.
KnowledgeBase ==
  << [text |-> <<"framework AI-ADF-013 document">>, score |-> <<81234>>,
      uri |-> <<URI_FW13>>,
      meta |-> [framework_id |-> <<ID_FW13>>, control_id |-> Absent,
                framework_ids_associated |-> {},
                control_ids_associated |-> {ID_CTRL1}]],
     [text |-> <<"framework AI-ADF-024 document">>, score |-> <<64567>>,
      uri |-> <<URI_FW24>>,
      meta |-> [framework_id |-> <<ID_FW24>>, control_id |-> Absent,
                framework_ids_associated |-> {},
                control_ids_associated |-> {}]],
     [text |-> <<"control AI-CTRL-00001 document">>, score |-> <<92908>>,
      uri |-> <<URI_CTRL1>>,
      meta |-> [framework_id |-> Absent, control_id |-> <<ID_CTRL1>>,
                framework_ids_associated |-> {ID_FW13},
                control_ids_associated |-> {}]],
     [text |-> <<"use case assessment document">>, score |-> Absent,
      uri |-> Absent,
      meta |-> [framework_id |-> Absent, control_id |-> Absent,
                framework_ids_associated |-> {ID_FW13, ID_FW24},
                control_ids_associated |-> {ID_CTRL1}]] >>

\* one condition of a filter against the metadata of a passage
EvalCondition(c, meta) ==
  IF c.op = "equals" THEN meta[c.key] = <<c.value>>
  ELSE c.value \in meta[c.key]

\* an optional filter {"orAll": [...]} against the metadata of a passage
Admits(filter, meta) ==
  \/ filter = Absent
  \/ \E i \in 1..Len(filter[1].orAll) : EvalCondition(filter[1].orAll[i], meta)

\* the responses the service may give to a request: at most numberOfResults
\* of the passages the filter admits, in the order the service ranks them
RetrievalResults(kb, config) ==
  LET vsc == config.vectorSearchConfiguration
      admitted == { i \in 1..Len(kb) : Admits(vsc.filter, kb[i].meta) }
      orders == Arrangements(admitted, vsc.numberOfResults)
  IN  { [j \in 1..Len(o) |-> kb[o[j]]] : o \in orders }

\* the texts the generation service may return
Completions == { "completion one", "completion two" }

(***************************************************************************)
(* retrieve(): the request.                                                *)
(***************************************************************************)
FrameworkFilter(fw) ==
  [orAll |-> << [op |-> "equals", key |-> "framework_id", value |-> fw],
                [op |-> "listContains", key |-> "framework_ids_associated", value |-> fw],
                [op |-> "listContains", key |-> "control_ids_associated", value |-> fw] >>]

ControlFilter(ctrl) ==
  [orAll |-> << [op |-> "equals", key |-> "control_id", value |-> ctrl],
                [op |-> "listContains", key |-> "control_ids_associated", value |-> ctrl] >>]

\* ApplyFilter with `if fw_id and ctrl_id:` as the only test
ApplyFilter_RequiresBoth(fw, ctrl) ==
  IF Truthy(fw) /\ Truthy(ctrl)
  THEN [filter |-> <<FrameworkFilter(fw)>>, fired |-> <<"framework">>]
  ELSE [filter |-> Absent, fired |-> << >>]

\* ApplyFilter with `if ctrl_id:` in place of `elif ctrl_id:`
ApplyFilter_BothIfs(fw, ctrl) ==
  LET first == IF Truthy(fw)
               THEN [filter |-> <<FrameworkFilter(fw)>>, fired |-> <<"framework">>]
               ELSE [filter |-> Absent, fired |-> << >>]
  IN  IF Truthy(ctrl)
      THEN [filter |-> <<ControlFilter(ctrl)>>, fired |-> Append(first.fired, "control")]
      ELSE first

\* the if / elif of retrieve(): the filter put into the configuration and
\* the branches that ran, in order
ApplyFilter(fw, ctrl) ==
  IF Truthy(fw)
  THEN [filter |-> <<FrameworkFilter(fw)>>, fired |-> <<"framework">>]
  ELSE IF Truthy(ctrl)
  THEN [filter |-> <<ControlFilter(ctrl)>>, fired |-> <<"control">>]
  ELSE [filter |-> Absent, fired |-> << >>]

\* RetrievalConfig that never attaches the filter
RetrievalConfig_NoFilter(q, k) ==
  [vectorSearchConfiguration |->
     [numberOfResults |-> k, overrideSearchType |-> "HYBRID", filter |-> Absent]]

\* retrieval_config as passed to bedrock_agent.retrieve
RetrievalConfig(q, k) ==
  [vectorSearchConfiguration |->
     [numberOfResults |-> k,
      overrideSearchType |-> "HYBRID",
      filter |-> ApplyFilter(extract_framework_id(q), extract_control_id(q)).filter]]

\* the result list retrieve() builds from the response, item by item
RECURSIVE BuildResults(_)
BuildResults(items) ==
  IF items = << >> THEN << >>
  ELSE <<[content |-> Get(Head(items).text, ""),
          score |-> Get(Head(items).score, 0),
          source |-> Get(Head(items).uri, NA)]>> \o BuildResults(Tail(items))

(***************************************************************************)
(* retrieve_and_generate(): context, metrics, result.                      *)
(***************************************************************************)
NO_INFORMATION == "No relevant information found in the knowledge base."

\* temperatures in tenths
SUMMARY_TEMPERATURE == 0

ANSWER_TEMPERATURE == 1

\* JoinContext that builds the context back to front
RECURSIVE JoinContext_Reversed(_)
JoinContext_Reversed(cs) ==
  IF cs = << >> THEN << >>
  ELSE JoinContext_Reversed(Tail(cs)) \o <<[source |-> Head(cs).source, body |-> Head(cs).content]>>

\* the context of the else branch: one "[Source: s]\ncontent" block per
\* chunk, joined in list order by "\n\n---\n\n"
RECURSIVE JoinContext(_)
JoinContext(cs) ==
  IF cs = << >> THEN << >>
  ELSE <<[source |-> Head(cs).source, body |-> Head(cs).content]>> \o JoinContext(Tail(cs))

\* DigestContext that passes the raw chunk on instead of its summary
DigestContext_RawContent(top_chunk, summarised) ==
  << [source |-> top_chunk.source, body |-> top_chunk.content] >>

\* the context of the use-case branch
DigestContext(top_chunk, summarised) ==
  << [source |-> top_chunk.source, body |-> summarised] >>

RECURSIVE Sum(_)
Sum(xs) == IF xs = << >> THEN 0 ELSE Head(xs) + Sum(Tail(xs))

\* num / den rounded to the nearest integer, ties to even
RoundHalfEven(num, den) ==
  LET q == num \div den
      r == num % den
  IN  IF 2 * r < den THEN q
      ELSE IF 2 * r > den THEN q + 1
      ELSE IF q % 2 = 0 THEN q ELSE q + 1

\* round(s, 4) of a score given in units of 0.00001; result in units of 0.0001
Round4(s) == RoundHalfEven(s, 10)

Scores(cs) == [i \in 1..Len(cs) |-> cs[i].score]

Sources(cs) == [i \in 1..Len(cs) |-> cs[i].source]

\* MeanScore that reports the score of the top chunk
MeanScore_TopOnly(scores) ==
  IF scores # << >> THEN Round4(scores[1]) ELSE 0

\* round(sum(scores) / len(scores), 4), in units of 0.0001
MeanScore(scores) ==
  IF scores # << >> THEN RoundHalfEven(Sum(scores), 10 * Len(scores)) ELSE 0

\* fw_id or ctrl_id or ""
TargetId(q) ==
  LET fw == extract_framework_id(q)
      ctrl == extract_control_id(q)
  IN  IF Truthy(fw) THEN fw ELSE IF Truthy(ctrl) THEN ctrl ELSE << >>

SourceMatch(target_id, sources) ==
  IF Truthy(target_id) THEN \A i \in 1..Len(sources) : In(target_id, sources[i]) ELSE TRUE

EmptyResult ==
  [answer |-> NO_INFORMATION, sources |-> << >>, chunks_used |-> 0,
   retrieval_scores |-> << >>, mean_score |-> 0, source_match |-> FALSE]

\* FinalResult that reports only the passages whose source contains the
\* target identifier
FinalResult_DropMismatched(query, cs, answer) ==
  LET target_id == TargetId(query)
      Keep(c) == ~Truthy(target_id) \/ In(target_id, c.source)
      kept == SelectSeq(cs, Keep)
  IN  [answer |-> answer,
       sources |-> Sources(kept),
       chunks_used |-> Len(kept),
       retrieval_scores |-> [i \in 1..Len(kept) |-> Round4(Scores(kept)[i])],
       mean_score |-> MeanScore(Scores(kept)),
       source_match |-> SourceMatch(target_id, Sources(cs))]

FinalResult(query, cs, answer) ==
  [answer |-> answer,
   sources |-> Sources(cs),
   chunks_used |-> Len(cs),
   retrieval_scores |-> [i \in 1..Len(cs) |-> Round4(Scores(cs)[i])],
   mean_score |-> MeanScore(Scores(cs)),
   source_match |-> SourceMatch(TargetId(query), Sources(cs))]

(***************************************************************************)
(* State.                                                                  *)
(***************************************************************************)
VARIABLES
  pc,         \* "idle", "search", "summarize", "answer", "done", "failed"
  caller,     \* the entry point of the invocation
  query,      \* its query
  top_k,      \* its top_k
  fw_id,      \* the local variable fw_id of retrieve()
  ctrl_id,    \* the local variable ctrl_id of retrieve()
  fired,      \* the filter branches of retrieve() that ran
  kb_calls,   \* the requests sent to bedrock_agent.retrieve
  llm_calls,  \* the requests sent to openai_client.chat.completions.create
  llm_replies,\* the texts those calls returned
  response,   \* << >> or <<the retrievalResults of the search response>>
  chunks,     \* the local variable chunks
  budget,     \* << >> or <<(summary_budget, answer_budget)>>
  context,    \* the local variable context
  result,     \* << >> or <<the dict returned by retrieve_and_generate>>
  environ,    \* os.environ after load_dotenv(): each value is << >> or <<string>>
  module_state, \* query_kb is "unloaded", "loaded" or "config_error"
  clients,    \* the service clients the module has created
  session,    \* chat() is "off", at the "prompt", "handling" a query or "ended"
  retrieve_only, \* the local variable retrieve_only of chat()
  line,       \* << >> or <<the line input() returned last>>
  printed,    \* what chat() printed last
  index,      \* the passages the knowledge base holds
  eval_pc,    \* evaluate() is "off", "retrieving", "generating", "finished" or "aborted"
  case_no,    \* the position in EVAL_CASES of the case being evaluated
  eval_chunks,\* the local variable chunks of evaluate()
  results,    \* the local variable results of evaluate()
  summary,    \* << >> or <<the aggregates evaluate() printed>>
  eval_results_json, \* the contents written to eval_results.json, in order
  running,    \* 0, or the invocation whose frame the variables pc .. result hold
  parked,     \* the frames of the invocations suspended at an external call
  ix_pc,      \* process_and_index() is "off", "listing", "reading", "returned" or "raised"
  keys_seen,  \* the objects the paginator has yielded
  lines_read, \* the lines read from the export files so far
  total_files,\* the local variable total_files
  total_docs, \* the local variable total_docs
  batch,      \* the local variable batch
  embedded,   \* the lines that were parsed, non-empty and embedded
  bulk_calls, \* the calls of bulk_index, in order: the documents and the outcome
  os_docs,    \* the OpenSearch index: the documents stored, one per document id
  ex_pc,      \* an export pipeline is "off", "scanning", "listing", "deleting", "uploading",
              \* "counted", "polling", "finished" or "raised"
  pipeline,   \* "none", or the export script that runs
  bucket,     \* the keys of the objects in the S3 bucket
  all_items,  \* the records the table scan returned
  delete_objects, \* the local variable delete_objects
  next_item,  \* the position of the upload loop in the records
  uploaded,   \* the local variable uploaded
  count,      \* << >> or <<the value scan_and_upload() returned>>
  s3_ops,     \* the delete_objects and put_object calls made, in order
  jobs_started, \* the ingestion jobs started
  job_status, \* the status of the ingestion job in the service
  status,     \* the local variable status of sync_knowledge_base()
  sync_result \* << >> or <<the value sync_knowledge_base() returned>>

\* the variables outside one retrieve / retrieve_and_generate invocation
evaluation == <<eval_pc, case_no, eval_chunks, results, summary, eval_results_json>>

\* the variables of the other programs and of concurrent callers
indexer == <<ix_pc, keys_seen, lines_read, total_files, total_docs, batch, embedded, bulk_calls, os_docs>>

exporter ==
  <<ex_pc, pipeline, bucket, all_items, delete_objects, next_item, uploaded, count, s3_ops,
    jobs_started, job_status, status, sync_result>>

programs == <<running, parked, indexer, exporter>>

\* process_and_index() is not running
NoIndexer ==
  /\ ix_pc = "off"
  /\ keys_seen = 0
  /\ lines_read = 0
  /\ total_files = 0
  /\ total_docs = 0
  /\ batch = << >>
  /\ embedded = {}
  /\ bulk_calls = << >>
  /\ os_docs = {}

outer == <<environ, module_state, clients, session, retrieve_only, line, printed, index, evaluation, programs>>

\* no program but the query tool is running, and it has one caller
\* no export pipeline is running
NoExporter ==
  /\ ex_pc = "off"
  /\ pipeline = "none"
  /\ bucket = {}
  /\ all_items = << >>
  /\ delete_objects = << >>
  /\ next_item = 1
  /\ uploaded = 0
  /\ count = << >>
  /\ s3_ops = << >>
  /\ jobs_started = 0
  /\ job_status = "NONE"
  /\ status = "NONE"
  /\ sync_result = << >>

NoPrograms ==
  /\ running = 0
  /\ parked = << >>
  /\ NoIndexer
  /\ NoExporter

\* evaluate() is not running
NoEvaluation ==
  /\ eval_pc = "off"
  /\ case_no = 0
  /\ eval_chunks = << >>
  /\ results = << >>
  /\ summary = << >>
  /\ eval_results_json = << >>

\* chat() is not running
NoChat ==
  /\ session = "off"
  /\ retrieve_only = FALSE
  /\ line = << >>
  /\ printed = ""

vars ==
  <<pc, caller, query, top_k, fw_id, ctrl_id, fired, kb_calls, llm_calls, llm_replies, response, chunks,
    budget, context, result, outer>>

\* the frame of an invocation when none is running
NoInvocation ==
  /\ pc = "idle"
  /\ caller = "none"
  /\ query = << >>
  /\ top_k = 1
  /\ fw_id = None
  /\ ctrl_id = None
  /\ fired = << >>
  /\ kb_calls = << >>
  /\ llm_calls = << >>
  /\ llm_replies = << >>
  /\ response = << >>
  /\ chunks = << >>
  /\ budget = << >>
  /\ context = << >>
  /\ result = << >>

\* the values a variable of the environment may have: unset, empty, set
EnvValues == { Absent, <<"">>, <<"configured">> }

\* `not value` for a value of the environment
Missing(value) == value = Absent \/ value[1] = ""

\* the module body of query_kb without the OPENAI_API_KEY test
ModuleBody_NoKeyCheck(env) ==
  IF Missing(env.KNOWLEDGE_BASE_ID)
  THEN [state |-> "config_error", clients |-> {}]
  ELSE [state |-> "loaded", clients |-> {"bedrock_agent", "openai_client"}]

\* the module body of query_kb: the two tests, then the two clients
ModuleBody(env) ==
  IF Missing(env.KNOWLEDGE_BASE_ID)
  THEN [state |-> "config_error", clients |-> {}]
  ELSE IF Missing(env.OPENAI_API_KEY)
  THEN [state |-> "config_error", clients |-> {}]
  ELSE [state |-> "loaded", clients |-> {"bedrock_agent", "openai_client"}]

\* the process has started; query_kb is not imported yet
Init ==
  /\ NoInvocation
  /\ environ \in [KNOWLEDGE_BASE_ID : EnvValues, OPENAI_API_KEY : EnvValues]
  /\ module_state = "unloaded"
  /\ clients = {}
  /\ NoChat
  /\ NoEvaluation
  /\ index = KnowledgeBase
  /\ NoPrograms

(***************************************************************************)
(* Requests.                                                               *)
(***************************************************************************)
SearchRequest(q, k) ==
  [knowledgeBaseId |-> environ.KNOWLEDGE_BASE_ID[1],
   retrievalQuery |-> [text |-> q], retrievalConfiguration |-> RetrievalConfig(q, k)]

SummarizeRequest(content, q, max_tokens) ==
  [site |-> "summarize_content", document |-> content, question |-> q,
   temperature |-> SUMMARY_TEMPERATURE, max_tokens |-> max_tokens]

AnswerRequest(ctx, q, max_tokens) ==
  [site |-> "retrieve_and_generate", context |-> ctx, question |-> q,
   temperature |-> ANSWER_TEMPERATURE, max_tokens |-> max_tokens]

(***************************************************************************)
(* Actions.  The calls to the two services are the suspension points; an   *)
(* action runs the code from one suspension point to the next.             *)
(***************************************************************************)
\* retrieve(q, k), called directly or by retrieve_and_generate, from its
\* entry up to the call of bedrock_agent.retrieve
Invoke(c, q, k) ==
  /\ module_state = "loaded"
  /\ pc' = "search"
  /\ caller' = c
  /\ query' = q
  /\ top_k' = k
  /\ fw_id' = extract_framework_id(q)
  /\ ctrl_id' = extract_control_id(q)
  /\ fired' = ApplyFilter(fw_id', ctrl_id').fired
  /\ kb_calls' = << SearchRequest(q, k) >>
  /\ llm_calls' = << >>
  /\ llm_replies' = << >>
  /\ response' = << >>
  /\ chunks' = << >>
  /\ budget' = << >>
  /\ context' = << >>
  /\ result' = << >>

\* a call made while no invocation is running
Enter(c, q, k) == pc = "idle" /\ Invoke(c, q, k)

\* retrieve(query, top_k) called on its own (retrieve-only mode, evaluator)
CallRetrieve(q, k) == Enter("retrieve", q, k) /\ UNCHANGED outer

\* retrieve_and_generate(query, top_k) called
CallRetrieveAndGenerate(q, k) == Enter("retrieve_and_generate", q, k) /\ UNCHANGED outer

\* the responses the service may give to the pending search request
PendingResults == RetrievalResults(index, kb_calls[1].retrievalConfiguration)

\* the search call returns to a bare retrieve(): the result list is returned
RetrieveReturns ==
  /\ pc = "search"
  /\ caller = "retrieve"
  /\ \E items \in PendingResults :
       /\ response' = <<items>>
       /\ chunks' = BuildResults(items)
  /\ pc' = "done"
  /\ UNCHANGED <<caller, query, top_k, fw_id, ctrl_id, fired, kb_calls, llm_calls, llm_replies, budget, context, result, outer>>

\* EmptyRetrieval without the `if not chunks` return: the answer is
\* requested over an empty context
EmptyRetrieval_NoShortCircuit ==
  /\ pc = "search"
  /\ caller = "retrieve_and_generate"
  /\ \E items \in PendingResults :
       /\ BuildResults(items) = << >>
       /\ response' = <<items>>
       /\ chunks' = BuildResults(items)
  /\ budget' = <<token_budget_for_query(query)>>
  /\ llm_calls' = Append(llm_calls, AnswerRequest(<< >>, query, token_budget_for_query(query).answer_tok))
  /\ pc' = "answer"
  /\ UNCHANGED <<caller, query, top_k, fw_id, ctrl_id, fired, kb_calls, llm_replies, context, result, outer>>

\* the search call returns no passage: the canned result
EmptyRetrieval ==
  /\ pc = "search"
  /\ caller = "retrieve_and_generate"
  /\ \E items \in PendingResults :
       /\ BuildResults(items) = << >>
       /\ response' = <<items>>
       /\ chunks' = BuildResults(items)
  /\ result' = <<EmptyResult>>
  /\ pc' = "done"
  /\ UNCHANGED <<caller, query, top_k, fw_id, ctrl_id, fired, kb_calls, llm_calls, llm_replies, budget, context, outer>>

\* StartSummarize that sends the answer request over the raw top chunk
\* without waiting for the digest
StartSummarize_EagerAnswer ==
  /\ pc = "search"
  /\ caller = "retrieve_and_generate"
  /\ is_usecase_query(query)
  /\ \E items \in PendingResults :
       LET cs == BuildResults(items)
           b == token_budget_for_query(query)
           top_chunk == cs[1]
       IN  /\ cs # << >>
           /\ response' = <<items>>
           /\ chunks' = <<top_chunk>>
           /\ budget' = <<b>>
           /\ context' = top_chunk.content
           /\ llm_calls' = << SummarizeRequest(top_chunk.content, query, b.summary_tok),
                              AnswerRequest(top_chunk.content, query, b.answer_tok) >>
  /\ pc' = "answer"
  /\ UNCHANGED <<caller, query, top_k, fw_id, ctrl_id, fired, kb_calls, llm_replies, result, outer>>

\* the search call returns passages for a use-case query: the top chunk is
\* sent to summarize_content
StartSummarize ==
  /\ pc = "search"
  /\ caller = "retrieve_and_generate"
  /\ is_usecase_query(query)
  /\ \E items \in PendingResults :
       LET cs == BuildResults(items)
           b == token_budget_for_query(query)
           top_chunk == cs[1]
       IN  /\ cs # << >>
           /\ response' = <<items>>
           /\ chunks' = cs
           /\ budget' = <<b>>
           /\ llm_calls' = Append(llm_calls, SummarizeRequest(top_chunk.content, query, b.summary_tok))
  /\ pc' = "summarize"
  /\ UNCHANGED <<caller, query, top_k, fw_id, ctrl_id, fired, kb_calls, llm_replies, context, result, outer>>

\* the search call returns passages for any other query: the context is
\* all chunks and the answer is requested
StartAnswer ==
  /\ pc = "search"
  /\ caller = "retrieve_and_generate"
  /\ ~is_usecase_query(query)
  /\ \E items \in PendingResults :
       LET cs == BuildResults(items)
           b == token_budget_for_query(query)
           ctx == JoinContext(cs)
       IN  /\ cs # << >>
           /\ response' = <<items>>
           /\ chunks' = cs
           /\ budget' = <<b>>
           /\ context' = ctx
           /\ llm_calls' = Append(llm_calls, AnswerRequest(ctx, query, b.answer_tok))
  /\ pc' = "answer"
  /\ UNCHANGED <<caller, query, top_k, fw_id, ctrl_id, fired, kb_calls, llm_replies, result, outer>>

\* SummarizeReturns without `chunks = [top_chunk]`
SummarizeReturns_KeepAll(summarised) ==
  /\ pc = "summarize"
  /\ summarised \in Completions
  /\ LET top_chunk == chunks[1]
         ctx == DigestContext(top_chunk, summarised)
     IN  /\ context' = ctx
         /\ chunks' = chunks
         /\ llm_calls' = Append(llm_calls, AnswerRequest(ctx, query, budget[1].answer_tok))
  /\ llm_replies' = Append(llm_replies, summarised)
  /\ pc' = "answer"
  /\ UNCHANGED <<caller, query, top_k, fw_id, ctrl_id, fired, kb_calls, response, budget, result, outer>>

\* SummarizeReturns that caps the answer by the summary budget
SummarizeReturns_SummaryCap(summarised) ==
  /\ pc = "summarize"
  /\ summarised \in Completions
  /\ LET top_chunk == chunks[1]
         ctx == DigestContext(top_chunk, summarised)
     IN  /\ context' = ctx
         /\ chunks' = <<top_chunk>>
         /\ llm_calls' = Append(llm_calls, AnswerRequest(ctx, query, budget[1].summary_tok))
  /\ llm_replies' = Append(llm_replies, summarised)
  /\ pc' = "answer"
  /\ UNCHANGED <<caller, query, top_k, fw_id, ctrl_id, fired, kb_calls, response, budget, result, outer>>

\* summarize_content returns: the digest is the context, chunks is narrowed
\* to the top chunk and the answer is requested
SummarizeReturns(summarised) ==
  /\ pc = "summarize"
  /\ summarised \in Completions
  /\ LET top_chunk == chunks[1]
         ctx == DigestContext(top_chunk, summarised)
     IN  /\ context' = ctx
         /\ chunks' = <<top_chunk>>
         /\ llm_calls' = Append(llm_calls, AnswerRequest(ctx, query, budget[1].answer_tok))
  /\ llm_replies' = Append(llm_replies, summarised)
  /\ pc' = "answer"
  /\ UNCHANGED <<caller, query, top_k, fw_id, ctrl_id, fired, kb_calls, response, budget, result, outer>>

\* the answer call returns: metrics and the returned dict
GenerateReturns(answer) ==
  /\ pc = "answer"
  /\ answer \in Completions
  /\ result' = <<FinalResult(query, chunks, answer)>>
  /\ llm_replies' = Append(llm_replies, answer)
  /\ pc' = "done"
  /\ UNCHANGED <<caller, query, top_k, fw_id, ctrl_id, fired, kb_calls, llm_calls, response, chunks, budget, context, outer>>

\* SearchRaises with a second attempt: the request is sent again
SearchRaises_Retry ==
  /\ pc = "search"
  /\ Len(kb_calls) < 2
  /\ kb_calls' = Append(kb_calls, kb_calls[1])
  /\ UNCHANGED <<pc, caller, query, top_k, fw_id, ctrl_id, fired, llm_calls, llm_replies, response, chunks, budget, context, result, outer>>

\* a service call raises: the exception leaves the invocation
SearchRaises ==
  /\ pc = "search"
  /\ pc' = "failed"
  /\ UNCHANGED <<caller, query, top_k, fw_id, ctrl_id, fired, kb_calls, llm_calls, llm_replies, response, chunks, budget, context, result, outer>>

SummarizeRaises ==
  /\ pc = "summarize"
  /\ pc' = "failed"
  /\ UNCHANGED <<caller, query, top_k, fw_id, ctrl_id, fired, kb_calls, llm_calls, llm_replies, response, chunks, budget, context, result, outer>>

GenerateRaises ==
  /\ pc = "answer"
  /\ pc' = "failed"
  /\ UNCHANGED <<caller, query, top_k, fw_id, ctrl_id, fired, kb_calls, llm_calls, llm_replies, response, chunks, budget, context, result, outer>>

\* `import query_kb`: lines 7-23 run once, from the environment
ImportModule ==
  /\ module_state = "unloaded"
  /\ module_state' = ModuleBody(environ).state
  /\ clients' = ModuleBody(environ).clients
  /\ UNCHANGED <<pc, caller, query, top_k, fw_id, ctrl_id, fired, kb_calls, llm_calls, llm_replies, response, chunks, budget, context, result, environ>>
  /\ UNCHANGED <<session, retrieve_only, line, printed, index, evaluation, programs>>

\* the frame of the invocation is discarded
FrameGone ==
  /\ pc' = "idle"
  /\ caller' = "none"
  /\ query' = << >>
  /\ top_k' = 1
  /\ fw_id' = None
  /\ ctrl_id' = None
  /\ fired' = << >>
  /\ kb_calls' = << >>
  /\ llm_calls' = << >>
  /\ llm_replies' = << >>
  /\ response' = << >>
  /\ chunks' = << >>
  /\ budget' = << >>
  /\ context' = << >>
  /\ result' = << >>

\* the caller has taken the returned value or the exception: the frame of
\* the invocation is gone
Leave ==
  /\ pc \in {"done", "failed"}
  /\ FrameGone
  /\ UNCHANGED outer

Next ==
  \/ ImportModule
  \/ \E q \in Queries, k \in 1..MaxTopK : CallRetrieve(q, k)
  \/ \E q \in Queries, k \in 1..MaxTopK : CallRetrieveAndGenerate(q, k)
  \/ RetrieveReturns
  \/ EmptyRetrieval
  \/ StartSummarize
  \/ StartAnswer
  \/ \E s \in Completions : SummarizeReturns(s)
  \/ \E a \in Completions : GenerateReturns(a)
  \/ SearchRaises
  \/ SummarizeRaises
  \/ GenerateRaises
  \/ Leave

Spec == Init /\ [][Next]_vars

(***************************************************************************)
(* chat(): the interactive loop.  It is suspended in input() and in the    *)
(* service calls of the query it handles.                                  *)
(***************************************************************************)
\* the default of the parameter top_k of retrieve and retrieve_and_generate
DEFAULT_TOP_K == 5

\* "quit"
QUIT == <<"q","u","i","t">>

\* "retrieve"
RETRIEVE == <<"r","e","t","r","i","e","v","e">>

\* the whitespace characters of the lines below
Whitespace == {" ", "\t"}

RECURSIVE lstrip(_)
lstrip(s) == IF s # << >> /\ Head(s) \in Whitespace THEN lstrip(Tail(s)) ELSE s

RECURSIVE rstrip(_)
rstrip(s) ==
  IF s # << >> /\ s[Len(s)] \in Whitespace THEN rstrip(SubSeq(s, 1, Len(s) - 1)) ELSE s

\* str.strip()
strip(s) == rstrip(lstrip(s))

\* "quit"
L_quit == <<"q","u","i","t">>

\* "  QUIT\t"
L_QUIT_padded == <<" "," ","Q","U","I","T","\t">>

\* "Quit"
L_Quit == <<"Q","u","i","t">>

\* "retrieve"
L_retrieve == <<"r","e","t","r","i","e","v","e">>

\* " Retrieve "
L_Retrieve_padded == <<" ","R","e","t","r","i","e","v","e"," ">>

\* ""
L_empty == << >>

\* "  \t"
L_blank == <<" "," ","\t">>

\* "quit now"
L_quit_now == <<"q","u","i","t"," ","n","o","w">>

\* "retrieve AI-CTRL-00001"
L_retrieve_ctrl == <<"r","e","t","r","i","e","v","e"," ","A","I","-","C","T","R","L","-","0","0","0","0","1">>

\* " TCO status "
L_tco_status == <<" ","T","C","O"," ","s","t","a","t","u","s"," ">>

\* "List controls AI-ADF-013"
L_list_fw13 == <<"L","i","s","t"," ","c","o","n","t","r","o","l","s"," ","A","I","-","A","D","F","-","0","1","3">>

\* the lines input() may return
Lines ==
  { L_quit, L_QUIT_padded, L_Quit, L_retrieve, L_Retrieve_padded, L_empty, L_blank,
    L_quit_now, L_retrieve_ctrl, L_tco_status, L_list_fw13 }

\* chat() is called in a process that has imported query_kb
InitChat ==
  /\ NoInvocation
  /\ environ = [KNOWLEDGE_BASE_ID |-> <<"configured">>, OPENAI_API_KEY |-> <<"configured">>]
  /\ module_state = ModuleBody(environ).state
  /\ clients = ModuleBody(environ).clients
  /\ NoChat
  /\ NoEvaluation
  /\ index = KnowledgeBase
  /\ NoPrograms

\* chat() from its call to the first input()
ChatStarts ==
  /\ session = "off"
  /\ module_state = "loaded"
  /\ session' = "prompt"
  /\ retrieve_only' = FALSE
  /\ printed' = "Commands"
  /\ UNCHANGED <<pc, caller, query, top_k, fw_id, ctrl_id, fired, kb_calls, llm_calls, llm_replies, response, chunks, budget, context, result>>
  /\ UNCHANGED <<environ, module_state, clients, line, index, evaluation, programs>>

\* input() returns a line that strips to nothing: `continue`
ReadNothing(l) ==
  /\ session = "prompt"
  /\ strip(l) = << >>
  /\ line' = <<l>>
  /\ UNCHANGED <<pc, caller, query, top_k, fw_id, ctrl_id, fired, kb_calls, llm_calls, llm_replies, response, chunks, budget, context, result>>
  /\ UNCHANGED <<environ, module_state, clients, session, retrieve_only, printed, index, evaluation, programs>>

\* input() returns the exit command: `break`
ReadQuit(l) ==
  /\ session = "prompt"
  /\ strip(l) # << >>
  /\ lower(strip(l)) = QUIT
  /\ line' = <<l>>
  /\ printed' = "Goodbye!"
  /\ session' = "ended"
  /\ UNCHANGED <<pc, caller, query, top_k, fw_id, ctrl_id, fired, kb_calls, llm_calls, llm_replies, response, chunks, budget, context, result>>
  /\ UNCHANGED <<environ, module_state, clients, retrieve_only, index, evaluation, programs>>

\* ReadToggle that switches the mode on instead of flipping it
ReadToggle_SwitchOn(l) ==
  /\ session = "prompt"
  /\ strip(l) # << >>
  /\ lower(strip(l)) # QUIT
  /\ lower(strip(l)) = RETRIEVE
  /\ line' = <<l>>
  /\ retrieve_only' = TRUE
  /\ printed' = "RETRIEVE ONLY"
  /\ UNCHANGED <<pc, caller, query, top_k, fw_id, ctrl_id, fired, kb_calls, llm_calls, llm_replies, response, chunks, budget, context, result>>
  /\ UNCHANGED <<environ, module_state, clients, session, index, evaluation, programs>>

\* input() returns the toggle command: the mode flips, `continue`
ReadToggle(l) ==
  /\ session = "prompt"
  /\ strip(l) # << >>
  /\ lower(strip(l)) # QUIT
  /\ lower(strip(l)) = RETRIEVE
  /\ line' = <<l>>
  /\ retrieve_only' = ~retrieve_only
  /\ printed' = IF retrieve_only' THEN "RETRIEVE ONLY" ELSE "RETRIEVE + GENERATE"
  /\ UNCHANGED <<pc, caller, query, top_k, fw_id, ctrl_id, fired, kb_calls, llm_calls, llm_replies, response, chunks, budget, context, result>>
  /\ UNCHANGED <<environ, module_state, clients, session, index, evaluation, programs>>

\* input() returns a query: retrieve(query) or retrieve_and_generate(query)
\* is called, up to its search call
ReadQuery(l) ==
  /\ session = "prompt"
  /\ strip(l) # << >>
  /\ lower(strip(l)) # QUIT
  /\ lower(strip(l)) # RETRIEVE
  /\ line' = <<l>>
  /\ printed' = IF retrieve_only THEN "Retrieving chunks..." ELSE "Generating answer..."
  /\ session' = "handling"
  /\ Enter(IF retrieve_only THEN "retrieve" ELSE "retrieve_and_generate", strip(l), DEFAULT_TOP_K)
  /\ UNCHANGED <<environ, module_state, clients, retrieve_only, index, evaluation, programs>>

\* the call returns: the chunks or the answer are printed and the loop goes
\* back to input()
ChatPrints ==
  /\ session = "handling"
  /\ pc = "done"
  /\ printed' = IF retrieve_only THEN "Chunks" ELSE "Answer"
  /\ session' = "prompt"
  /\ FrameGone
  /\ UNCHANGED <<environ, module_state, clients, retrieve_only, line, index, evaluation, programs>>

\* ChatReportsError without the `except Exception`: the exception leaves
\* chat()
ChatReportsError_Uncaught ==
  /\ session = "handling"
  /\ pc = "failed"
  /\ printed' = "Traceback"
  /\ session' = "ended"
  /\ FrameGone
  /\ UNCHANGED <<environ, module_state, clients, retrieve_only, line, index, evaluation, programs>>

\* the call raises: `except Exception` prints the error and the loop goes
\* back to input()
ChatReportsError ==
  /\ session = "handling"
  /\ pc = "failed"
  /\ printed' = "Error"
  /\ session' = "prompt"
  /\ FrameGone
  /\ UNCHANGED <<environ, module_state, clients, retrieve_only, line, index, evaluation, programs>>

NextChat ==
  \/ ChatStarts
  \/ \E l \in Lines : ReadNothing(l)
  \/ \E l \in Lines : ReadQuit(l)
  \/ \E l \in Lines : ReadToggle(l)
  \/ \E l \in Lines : ReadQuery(l)
  \/ RetrieveReturns
  \/ EmptyRetrieval
  \/ StartSummarize
  \/ StartAnswer
  \/ \E s \in Completions : SummarizeReturns(s)
  \/ \E a \in Completions : GenerateReturns(a)
  \/ SearchRaises
  \/ SummarizeRaises
  \/ GenerateRaises
  \/ ChatPrints
  \/ ChatReportsError

SpecChat == InitChat /\ [][NextChat]_vars

(***************************************************************************)
(* eval_retrieval.py: evaluate().  It is suspended in the service calls of *)
(* the retrieve and retrieve_and_generate invocations of each case.        *)
(***************************************************************************)
\* "AI-ADF-016"
ID_FW16 == <<"A","I","-","A","D","F","-","0","1","6">>

\* "AI-ADF-015"
ID_FW15 == <<"A","I","-","A","D","F","-","0","1","5">>

\* "AI-ADF-018"
ID_FW18 == <<"A","I","-","A","D","F","-","0","1","8">>

\* "AI-ADF-023"
ID_FW23 == <<"A","I","-","A","D","F","-","0","2","3">>

EVAL_CASES ==
  << [query |-> <<"L","i","s","t"," ","c","o","n","t","r","o","l","s"," ","a","t","t","a","c","h","e","d"," ","t","o"," ","A","I","-","A","D","F","-","0","1","3">>,
      expected_sources |-> <<ID_FW13>>,
      must_contain |-> <<ID_FW13>>,
      must_not_contain_sources |-> <<ID_FW24, ID_FW16, ID_FW15, ID_FW18, ID_FW23>>],
     [query |-> <<"L","i","s","t"," ","c","o","n","t","r","o","l","s"," ","a","t","t","a","c","h","e","d"," ","t","o"," ","A","I","-","A","D","F","-","0","2","4">>,
      expected_sources |-> <<ID_FW24>>,
      must_contain |-> <<ID_FW24>>,
      must_not_contain_sources |-> <<ID_FW13, ID_FW16, ID_FW15>>],
     [query |-> <<"L","i","s","t"," ","c","o","n","t","r","o","l","s"," ","a","t","t","a","c","h","e","d"," ","t","o"," ","A","I","-","A","D","F","-","0","1","6">>,
      expected_sources |-> <<ID_FW16>>,
      must_contain |-> <<ID_FW16>>,
      must_not_contain_sources |-> <<ID_FW13, ID_FW24, ID_FW15>>],
     [query |-> <<"W","h","a","t"," ","f","r","a","m","e","w","o","r","k","s"," ","a","r","e"," ","a","v","a","i","l","a","b","l","e","?">>,
      expected_sources |-> << <<"f","r","a","m","e","w","o","r","k">> >>,
      must_contain |-> << <<"F","r","a","m","e","w","o","r","k">> >>,
      must_not_contain_sources |-> << >>],
     [query |-> <<"S","h","o","w"," ","c","o","n","t","r","o","l","s"," ","a","t"," ","A","I"," ","M","a","t","u","r","i","t","y"," ","L","e","v","e","l"," ","3">>,
      expected_sources |-> << <<"c","o","n","t","r","o","l","s","/">> >>,
      must_contain |-> << <<"L","e","v","e","l"," ","3">> >>,
      must_not_contain_sources |-> << >>] >>

\* the cases the loop of evaluate() runs over
Cases == SubSeq(EVAL_CASES, 1, IF MaxCases < Len(EVAL_CASES) THEN MaxCases ELSE Len(EVAL_CASES))

\* the top_k evaluate() passes to retrieve and retrieve_and_generate
EVAL_TOP_K == 10

\* "s3://kb/framework-controls/AI-ADF-024_AI-ADF-016.md"
URI_MAP_FW24_FW16 == <<"s","3",":","/","/","k","b","/","f","r","a","m","e","w","o","r","k","-","c","o","n","t","r","o","l","s","/","A","I","-","A","D","F","-","0","2","4","_","A","I","-","A","D","F","-","0","1","6",".","m","d">>

\* The passages indexed when evaluate() runs: the framework document of
\* AI-ADF-013 and a document of AI-ADF-024, associated with AI-ADF-013,
\* whose object key names AI-ADF-024 and AI-ADF-016.
EvalKnowledgeBase ==
  << [text |-> <<"framework AI-ADF-013 document">>, score |-> <<81234>>,
      uri |-> <<URI_FW13>>,
      meta |-> [framework_id |-> <<ID_FW13>>, control_id |-> Absent,
                framework_ids_associated |-> {},
                control_ids_associated |-> {}]],
     [text |-> <<"mapping of AI-ADF-024 to AI-ADF-016">>, score |-> <<64567>>,
      uri |-> <<URI_MAP_FW24_FW16>>,
      meta |-> [framework_id |-> <<ID_FW24>>, control_id |-> Absent,
                framework_ids_associated |-> {ID_FW13},
                control_ids_associated |-> {}]] >>

\* the characters of a passage text or of a completion
Characters(text) ==
  CASE text = "" -> << >>
    [] text = "framework AI-ADF-013 document" -> <<"f","r","a","m","e","w","o","r","k"," ","A","I","-","A","D","F","-","0","1","3"," ","d","o","c","u","m","e","n","t">>
    [] text = "mapping of AI-ADF-024 to AI-ADF-016" -> <<"m","a","p","p","i","n","g"," ","o","f"," ","A","I","-","A","D","F","-","0","2","4"," ","t","o"," ","A","I","-","A","D","F","-","0","1","6">>
    [] text = "completion one" -> <<"c","o","m","p","l","e","t","i","o","n"," ","o","n","e">>
    [] text = "completion two" -> <<"c","o","m","p","l","e","t","i","o","n"," ","t","w","o">>
    [] text = NO_INFORMATION -> <<"N","o"," ","r","e","l","e","v","a","n","t"," ","i","n","f","o","r","m","a","t","i","o","n"," ","f","o","u","n","d"," ","i","n"," ","t","h","e"," ","k","n","o","w","l","e","d","g","e"," ","b","a","s","e",".">>

\* " ".join(c["content"] for c in chunks)
RECURSIVE JoinContents(_)
JoinContents(cs) ==
  IF cs = << >> THEN << >>
  ELSE IF Len(cs) = 1 THEN Characters(cs[1].content)
  ELSE Characters(cs[1].content) \o <<" ">> \o JoinContents(Tail(cs))

\* num / den as Python computes it, kept exact
Ratio(num, den) == [num |-> num, den |-> den]

\* sum(...) / n over ratios
RECURSIVE RatioSum(_)
RatioSum(rs) ==
  IF rs = << >> THEN Ratio(0, 1)
  ELSE LET rest == RatioSum(Tail(rs))
       IN  Ratio(Head(rs).num * rest.den + rest.num * Head(rs).den, Head(rs).den * rest.den)

\* hits / len(expected) if expected else 0
SourceRecall(expected, sources) ==
  IF expected # << >>
  THEN Ratio(Cardinality({ i \in 1..Len(expected) :
                             \E j \in 1..Len(sources) : In(expected[i], sources[j]) }),
             Len(expected))
  ELSE Ratio(0, 1)

\* the share of the keywords found in the text, both lowered; 0 for no keyword
KeywordShare(must_contain, text) ==
  IF must_contain # << >>
  THEN Ratio(Cardinality({ i \in 1..Len(must_contain) : In(lower(must_contain[i]), lower(text)) }),
             Len(must_contain))
  ELSE Ratio(0, 1)

\* the inner loop of the contamination check: the sources that contain bad_id
SourcesContaining(bad_id, sources) ==
  LET Hit(src) == In(bad_id, src)
  IN  SelectSeq(sources, Hit)

\* ContaminatedSources that looks for the first banned identifier only
RECURSIVE ContaminatedSources_FirstIdOnly(_, _)
ContaminatedSources_FirstIdOnly(must_not_contain, sources) ==
  IF must_not_contain = << >> THEN << >>
  ELSE SourcesContaining(Head(must_not_contain), sources)

\* the two nested loops of the contamination check: one entry for every
\* pair (bad_id, src) with bad_id in src
RECURSIVE ContaminatedSources(_, _)
ContaminatedSources(must_not_contain, sources) ==
  IF must_not_contain = << >> THEN << >>
  ELSE SourcesContaining(Head(must_not_contain), sources)
         \o ContaminatedSources(Tail(must_not_contain), sources)

\* round(purity_score, 4), in units of 0.0001
PurityScore(contaminated_sources, retrieved_sources) ==
  IF retrieved_sources # << >>
  THEN RoundHalfEven(10000 * (Len(retrieved_sources) - Len(contaminated_sources)),
                     Len(retrieved_sources))
  ELSE 10000

\* [bad_id for bad_id in must_not_contain if bad_id.lower() in answer.lower()]
AnswerContamination(must_not_contain, answer) ==
  LET Named(bad_id) == In(lower(bad_id), lower(answer))
  IN  SelectSeq(must_not_contain, Named)

\* the result dict of one case, from the chunks retrieve() returned and the
\* dict retrieve_and_generate() returned
CaseResult(case, cs, rag_result) ==
  LET retrieved_sources == Sources(cs)
      contaminated_sources == ContaminatedSources(case.must_not_contain_sources, retrieved_sources)
      answer == Characters(rag_result.answer)
  IN  [query |-> case.query,
       source_recall |-> SourceRecall(case.expected_sources, retrieved_sources),
       content_relevance |-> KeywordShare(case.must_contain, JoinContents(cs)),
       mean_retrieval_score |-> MeanScore(Scores(cs)),
       answer_faithfulness |-> KeywordShare(case.must_contain, answer),
       cross_contamination |-> Len(contaminated_sources) > 0,
       purity_score |-> PurityScore(contaminated_sources, retrieved_sources),
       contaminated_sources |-> contaminated_sources,
       answer_contamination |-> AnswerContamination(case.must_not_contain_sources, answer),
       rag_retrieval_scores |-> rag_result.retrieval_scores,
       rag_mean_score |-> rag_result.mean_score,
       rag_source_match |-> rag_result.source_match,
       sources_retrieved |-> retrieved_sources,
       chunks_count |-> Len(cs)]

\* the aggregates of the summary; scores and purities are sums of values
\* in units of 0.0001
Aggregates(rs) ==
  LET n == Len(rs)
  IN  [avg_recall |-> Ratio(RatioSum([i \in 1..n |-> rs[i].source_recall]).num,
                            RatioSum([i \in 1..n |-> rs[i].source_recall]).den * n),
       avg_relevance |-> Ratio(RatioSum([i \in 1..n |-> rs[i].content_relevance]).num,
                               RatioSum([i \in 1..n |-> rs[i].content_relevance]).den * n),
       avg_score |-> Ratio(Sum([i \in 1..n |-> rs[i].mean_retrieval_score]), n),
       avg_faith |-> Ratio(RatioSum([i \in 1..n |-> rs[i].answer_faithfulness]).num,
                           RatioSum([i \in 1..n |-> rs[i].answer_faithfulness]).den * n),
       avg_purity |-> Ratio(Sum([i \in 1..n |-> rs[i].purity_score]), n),
       contamination_rate |-> Ratio(Cardinality({ i \in 1..n : rs[i].cross_contamination }), n)]

\* evaluate() is called in a process that has imported query_kb
InitEval ==
  /\ NoInvocation
  /\ environ = [KNOWLEDGE_BASE_ID |-> <<"configured">>, OPENAI_API_KEY |-> <<"configured">>]
  /\ module_state = ModuleBody(environ).state
  /\ clients = ModuleBody(environ).clients
  /\ NoChat
  /\ NoEvaluation
  /\ index = EvalKnowledgeBase
  /\ NoPrograms

\* evaluate() from its call to the search call of the first case
EvaluateStarts ==
  /\ eval_pc = "off"
  /\ pc = "idle"
  /\ eval_pc' = "retrieving"
  /\ case_no' = 1
  /\ results' = << >>
  /\ Invoke("retrieve", Cases[1].query, EVAL_TOP_K)
  /\ UNCHANGED <<environ, module_state, clients, session, retrieve_only, line, printed, index, programs>>
  /\ UNCHANGED <<eval_chunks, summary, eval_results_json>>

\* retrieve() returns: retrieve_and_generate() is called for the same case
CaseRetrieved ==
  /\ eval_pc = "retrieving"
  /\ pc = "done"
  /\ eval_chunks' = chunks
  /\ eval_pc' = "generating"
  /\ Invoke("retrieve_and_generate", Cases[case_no].query, EVAL_TOP_K)
  /\ UNCHANGED <<environ, module_state, clients, session, retrieve_only, line, printed, index, programs>>
  /\ UNCHANGED <<case_no, results, summary, eval_results_json>>

\* CaseGenerated that also dumps the results collected so far
CaseGenerated_DumpEachCase ==
  /\ eval_pc = "generating"
  /\ pc = "done"
  /\ case_no < Len(Cases)
  /\ results' = Append(results, CaseResult(Cases[case_no], eval_chunks, result[1]))
  /\ eval_results_json' = Append(eval_results_json, results')
  /\ case_no' = case_no + 1
  /\ eval_pc' = "retrieving"
  /\ Invoke("retrieve", Cases[case_no + 1].query, EVAL_TOP_K)
  /\ UNCHANGED <<environ, module_state, clients, session, retrieve_only, line, printed, index, programs>>
  /\ UNCHANGED <<eval_chunks, summary>>

\* retrieve_and_generate() returns for a case that is not the last: the
\* result is appended and retrieve() is called for the next case
CaseGenerated ==
  /\ eval_pc = "generating"
  /\ pc = "done"
  /\ case_no < Len(Cases)
  /\ results' = Append(results, CaseResult(Cases[case_no], eval_chunks, result[1]))
  /\ case_no' = case_no + 1
  /\ eval_pc' = "retrieving"
  /\ Invoke("retrieve", Cases[case_no + 1].query, EVAL_TOP_K)
  /\ UNCHANGED <<environ, module_state, clients, session, retrieve_only, line, printed, index, programs>>
  /\ UNCHANGED <<eval_chunks, summary, eval_results_json>>

\* retrieve_and_generate() returns for the last case: the result is
\* appended, the summary is printed and the results are dumped to
\* eval_results.json
LastCaseGenerated ==
  /\ eval_pc = "generating"
  /\ pc = "done"
  /\ case_no = Len(Cases)
  /\ results' = Append(results, CaseResult(Cases[case_no], eval_chunks, result[1]))
  /\ summary' = <<Aggregates(results')>>
  /\ eval_results_json' = Append(eval_results_json, results')
  /\ eval_pc' = "finished"
  /\ FrameGone
  /\ UNCHANGED <<environ, module_state, clients, session, retrieve_only, line, printed, index, programs>>
  /\ UNCHANGED <<case_no, eval_chunks>>

\* EvaluateAborts that dumps the results of the completed cases before
\* evaluate() is left
EvaluateAborts_DumpPartial ==
  /\ eval_pc \in {"retrieving", "generating"}
  /\ pc = "failed"
  /\ eval_pc' = "aborted"
  /\ eval_results_json' = Append(eval_results_json, results)
  /\ FrameGone
  /\ UNCHANGED <<environ, module_state, clients, session, retrieve_only, line, printed, index, programs>>
  /\ UNCHANGED <<case_no, eval_chunks, results, summary>>

\* a service call of a case raises: nothing catches the exception and
\* evaluate() is left
EvaluateAborts ==
  /\ eval_pc \in {"retrieving", "generating"}
  /\ pc = "failed"
  /\ eval_pc' = "aborted"
  /\ FrameGone
  /\ UNCHANGED <<environ, module_state, clients, session, retrieve_only, line, printed, index, programs>>
  /\ UNCHANGED <<case_no, eval_chunks, results, summary, eval_results_json>>

\* No query of EVAL_CASES is a use-case query, so the summarisation branch
\* of retrieve_and_generate does not run under evaluate().
NextEval ==
  \/ EvaluateStarts
  \/ RetrieveReturns
  \/ EmptyRetrieval
  \/ StartAnswer
  \/ \E a \in Completions : GenerateReturns(a)
  \/ SearchRaises
  \/ GenerateRaises
  \/ CaseRetrieved
  \/ CaseGenerated
  \/ LastCaseGenerated
  \/ EvaluateAborts

SpecEval == InitEval /\ [][NextEval]_vars

(***************************************************************************)
(* Properties.                                                             *)
(***************************************************************************)
\* a search request has been sent in the current invocation
Searched == kb_calls # << >>

\* the optional filter of that request
SentFilter == kb_calls[1].retrievalConfiguration.vectorSearchConfiguration.filter

\* the search call of the current invocation has returned
Retrieved == response # << >>

\* the passages the service returned
Passages == response[1]

\* the metadata of a passage names identifier x as its own framework or in
\* one of its association lists
MetaMentions(meta, x) ==
  \/ meta.framework_id = <<x>>
  \/ x \in meta.framework_ids_associated
  \/ x \in meta.control_ids_associated

\* C1 as stated: when the query holds a framework identifier X, every source
\* in the list retrieve() returns contains X as a substring.
C1_EverySourceContainsId ==
  (caller = "retrieve" /\ pc = "done" /\ Truthy(fw_id))
    => \A i \in 1..Len(chunks) : In(fw_id, chunks[i].source)

\* C1 amended: when the query holds a framework identifier X (the leftmost
\* match), every entry of the list retrieve() returns is, in order, a passage
\* whose framework_id equals X or whose framework_ids_associated or
\* control_ids_associated list contains X; its source need not contain X.
C1_OnlyAdmittedPassages ==
  (caller = "retrieve" /\ pc = "done" /\ Truthy(fw_id))
    => /\ Len(chunks) = Len(Passages)
       /\ \A i \in 1..Len(chunks) :
            /\ chunks[i].source = Get(Passages[i].uri, NA)
            /\ MetaMentions(Passages[i].meta, fw_id)

C1_Witness ==
  /\ caller = "retrieve"
  /\ pc = "done"
  /\ Truthy(fw_id)
  /\ Len(chunks) = 2
  /\ \E i \in 1..Len(chunks) : ~In(fw_id, chunks[i].source)

\* C2: the search request carries a filter exactly when an identifier was
\* extracted from the query.
C2_FilterIffIdentifier ==
  Searched =>
    (SentFilter # Absent
       <=> (fw_id # None \/ ctrl_id # None))

C2_Witness ==
  /\ Searched
  /\ SentFilter # Absent
  /\ fw_id # None
  /\ ctrl_id = None

\* the identifier extracted from the query: the framework pattern first,
\* then the control pattern
Identifier == IF fw_id # None THEN fw_id ELSE ctrl_id

\* x has the form AI-CTRL-<digits>
IsControlIdentifier(x) == x # None /\ ControlMatchEnd(x, 1) = Len(x)

\* C3 as stated: when the identifier of the query is a control identifier,
\* the filter sent is control_id = X OR control_ids_associated contains X.
C3_ControlFilterSent ==
  (Searched /\ IsControlIdentifier(Identifier))
    => /\ SentFilter # Absent
       /\ Len(SentFilter[1].orAll) = 2
       /\ SentFilter[1].orAll[1] =
            [op |-> "equals", key |-> "control_id", value |-> Identifier]
       /\ SentFilter[1].orAll[2] =
            [op |-> "listContains", key |-> "control_ids_associated", value |-> Identifier]

NonEmptyRetrieval ==
  caller = "retrieve_and_generate" /\ Retrieved /\ Passages # << >>

IsSummarizeCall(c) == c.site = "summarize_content"

IsAnswerCall(c) == c.site = "retrieve_and_generate"

SummarizeCalls == SelectSeq(llm_calls, IsSummarizeCall)

AnswerCalls == SelectSeq(llm_calls, IsAnswerCall)

\* the source retrieve() reports for passage i of the response
SourceOf(i) == IF Passages[i].uri = << >> THEN NA ELSE Passages[i].uri[1]

\* the content retrieve() reports for passage i of the response
ContentOf(i) == IF Passages[i].text = << >> THEN "" ELSE Passages[i].text[1]

\* the score retrieve() reports for passage i of the response
ScoreOf(i) == IF Passages[i].score = << >> THEN 0 ELSE Passages[i].score[1]

\* C5: when retrieval returns zero passages, retrieve_and_generate returns
\* the canned answer with no sources and chunks_used = 0 and has called the
\* generation service neither for a summary nor for an answer.
C5_EmptyShortCircuit ==
  (caller = "retrieve_and_generate" /\ Retrieved /\ Passages = << >>)
    => /\ pc = "done"
       /\ result # << >>
       /\ result[1].answer = "No relevant information found in the knowledge base."
       /\ result[1].sources = << >>
       /\ result[1].chunks_used = 0
       /\ llm_calls = << >>
       /\ llm_replies = << >>

C5_Witness ==
  /\ caller = "retrieve_and_generate"
  /\ Retrieved
  /\ Passages = << >>
  /\ pc = "done"
  /\ is_usecase_query(query)

\* C6 as stated: in every returned result, the empty-retrieval one included,
\* source_match is true exactly when every returned source contains the
\* extracted identifier, and is true when no identifier was extracted.
C6_SourceMatchIffAllContain ==
  result # << >> =>
    (result[1].source_match
       <=> (Identifier # None =>
              \A i \in 1..Len(result[1].sources) : In(Identifier, result[1].sources[i])))

\* C7: summarize_content is called exactly when the query is a use-case
\* query and retrieval was non-empty; it is then called once, before the
\* answer call, on the content of the top passage, and the context of the
\* answer call is the one digest it returned, labelled with the source of
\* the top passage.
C7_SummarizeTopPassageOnly ==
  /\ Len(SummarizeCalls) = IF NonEmptyRetrieval /\ is_usecase_query(query) THEN 1 ELSE 0
  /\ SummarizeCalls # << >> =>
       /\ llm_calls[1] = SummarizeCalls[1]
       /\ SummarizeCalls[1].document = ContentOf(1)
       /\ \A i \in 1..Len(AnswerCalls) :
            /\ llm_replies # << >>
            /\ AnswerCalls[i].context = << [source |-> SourceOf(1), body |-> llm_replies[1]] >>
            /\ context = AnswerCalls[i].context

C7_Witness ==
  /\ NonEmptyRetrieval
  /\ Len(Passages) = 2
  /\ Len(SummarizeCalls) = 1
  /\ Len(AnswerCalls) = 1

\* C8 as stated: in large-document mode only the top passage is in the
\* context and the scores of all retrieved passages are reported.
C8_AllScoresReported ==
  (result # << >> /\ NonEmptyRetrieval /\ is_usecase_query(query))
    => /\ Len(context) = 1
       /\ result[1].retrieval_scores = [i \in 1..Len(Passages) |-> Round4(ScoreOf(i))]

\* C8 amended: in large-document mode the passages other than the top one
\* are excluded from the context and from the result as well: sources,
\* chunks_used, retrieval_scores and mean_score cover the top passage only.
C8_OnlyTopReported ==
  (result # << >> /\ NonEmptyRetrieval /\ is_usecase_query(query))
    => /\ Len(context) = 1
       /\ context[1].source = SourceOf(1)
       /\ result[1].sources = << SourceOf(1) >>
       /\ result[1].chunks_used = 1
       /\ result[1].retrieval_scores = << Round4(ScoreOf(1)) >>
       /\ result[1].mean_score = Round4(ScoreOf(1))

C8_Witness ==
  /\ result # << >>
  /\ NonEmptyRetrieval
  /\ is_usecase_query(query)
  /\ Len(Passages) = 2
  /\ ScoreOf(2) # ScoreOf(1)

\* C9: outside large-document mode the context of the answer call holds
\* every passage of the response, labelled with its own source, in the order
\* of the response; the list retrieve() returns is in that order too.
C9_ContextInServiceOrder ==
  /\ (NonEmptyRetrieval /\ ~is_usecase_query(query)) =>
       /\ Len(llm_calls) = 1
       /\ IsAnswerCall(llm_calls[1])
       /\ llm_calls[1].context =
            [i \in 1..Len(Passages) |-> [source |-> SourceOf(i), body |-> ContentOf(i)]]
       /\ context = llm_calls[1].context
  /\ (caller = "retrieve" /\ pc = "done") =>
       chunks = [i \in 1..Len(Passages) |->
                   [content |-> ContentOf(i), score |-> ScoreOf(i), source |-> SourceOf(i)]]

C9_Witness ==
  /\ NonEmptyRetrieval
  /\ ~is_usecase_query(query)
  /\ pc = "done"
  /\ Len(Passages) = 2
  /\ ScoreOf(1) < ScoreOf(2)

\* the keyword groups, in scan order, that the query matches
MatchingGroups(q) ==
  LET q_lower == lower(q)
  IN  { g \in 1..3 : \E i \in 1..Len(QUERY_TOKEN_PROFILES[g].keywords) :
                       In(QUERY_TOKEN_PROFILES[g].keywords[i], q_lower) }

\* C10: the budget of a query is that of the last group it matches in the
\* order narrow (500, 1000), medium (1500, 4000), deep (3000, 8000), and
\* (1500, 4000) when it matches none.
C10_LastMatchingGroupWins ==
  budget # << >> =>
    LET M == MatchingGroups(query)
        last == CHOOSE g \in M : \A h \in M : h <= g
    IN  budget[1] =
          IF M = {} THEN [summary_tok |-> 1500, answer_tok |-> 4000]
          ELSE IF last = 1 THEN [summary_tok |-> 500, answer_tok |-> 1000]
          ELSE IF last = 2 THEN [summary_tok |-> 1500, answer_tok |-> 4000]
          ELSE [summary_tok |-> 3000, answer_tok |-> 8000]

C10_Witness ==
  /\ budget = << [summary_tok |-> 3000, answer_tok |-> 8000] >>
  /\ MatchingGroups(query) = {1, 3}

\* the budgets of the queries that match at least one deep keyword
DeepBudgets ==
  { token_budget_for_query(q) : q \in { d \in Queries : 3 \in MatchingGroups(d) } }

\* C11: a query that matches only narrow keywords gets a summary budget and
\* an answer budget that are both strictly smaller than those of every query
\* that matches a deep keyword.
C11_NarrowBelowDeep ==
  (budget # << >> /\ MatchingGroups(query) = {1}) =>
    \A b \in DeepBudgets :
      /\ budget[1].summary_tok < b.summary_tok
      /\ budget[1].answer_tok < b.answer_tok

C11_Witness ==
  /\ budget # << >>
  /\ MatchingGroups(query) = {1}
  /\ fw_id # None
  /\ Cardinality(DeepBudgets) = 1

\* C12: within one retrieve_and_generate invocation the search service is
\* called exactly once and each generation call site at most once; when a
\* call fails, no result is returned and the failed call is the last call
\* made: no later stage's call follows it.
C12_NoRetry ==
  (caller = "retrieve_and_generate" /\ pc # "idle") =>
    /\ Len(kb_calls) = 1
    /\ Len(SummarizeCalls) <= 1
    /\ Len(AnswerCalls) <= 1
    /\ pc = "failed" =>
         /\ result = << >>
         /\ ~Retrieved => llm_calls = << >>
         /\ Retrieved => Len(llm_replies) = Len(llm_calls) - 1

C12_Witness ==
  /\ caller = "retrieve_and_generate"
  /\ pc = "failed"
  /\ Len(SummarizeCalls) = 1
  /\ Len(AnswerCalls) = 1
  /\ Len(llm_replies) = 1

\* C15: within one query the generation calls are made one at a time and
\* only after the search call has returned; a summarisation call is the
\* first of them, an answer call is the last of them and is made only when
\* every call before it has returned.
C15_CallsInOrder ==
  /\ Retrieved => Searched
  /\ llm_calls # << >> => Retrieved
  /\ Len(llm_replies) <= Len(llm_calls)
  /\ Len(llm_calls) <= Len(llm_replies) + 1
  /\ \A i \in 1..Len(llm_calls) :
       /\ IsSummarizeCall(llm_calls[i]) => i = 1
       /\ IsAnswerCall(llm_calls[i]) =>
            /\ i = Len(llm_calls)
            /\ \A j \in 1..(i - 1) : IsSummarizeCall(llm_calls[j])

C15_Witness ==
  /\ pc = "answer"
  /\ Len(llm_calls) = 2
  /\ IsSummarizeCall(llm_calls[1])
  /\ IsAnswerCall(llm_calls[2])
  /\ Len(llm_replies) = 1

\* the passages of the response that retrieve_and_generate used: the top
\* one after a summarisation, all of them otherwise
UsedPassages ==
  IF SummarizeCalls # << >> THEN <<1>> ELSE [i \in 1..Len(Passages) |-> i]

\* C20: when retrieval is non-empty and the calls succeed,
\* retrieve_and_generate returns the generated answer with the source and
\* the score of every passage it used, whether source_match is true or
\* false, and the list of chunks is the same before and after the metrics.
C20_MismatchNeverBlocks ==
  (NonEmptyRetrieval /\ pc = "done") =>
    /\ result # << >>
    /\ result[1].answer = llm_replies[Len(llm_replies)]
    /\ result[1].answer \in Completions
    /\ result[1].chunks_used = Len(UsedPassages)
    /\ Len(chunks) = Len(UsedPassages)
    /\ result[1].sources = [i \in 1..Len(UsedPassages) |-> SourceOf(UsedPassages[i])]
    /\ result[1].retrieval_scores =
         [i \in 1..Len(UsedPassages) |-> Round4(ScoreOf(UsedPassages[i]))]
    /\ result[1].source_match \in BOOLEAN

C20_Witness ==
  /\ NonEmptyRetrieval
  /\ pc = "done"
  /\ result # << >>
  /\ result[1].source_match = FALSE
  /\ Len(result[1].sources) = 2
  /\ \E i \in 1..2 : In(TargetId(query), result[1].sources[i])

\* C16: the module is loaded only when both KNOWLEDGE_BASE_ID and
\* OPENAI_API_KEY are set and non-empty, and then both clients exist; when
\* one of them is missing, the import ends in the configuration error with
\* no client created, and no retrieval or generation call is ever made
\* unless the module is loaded.
C16_NoPartialConfiguration ==
  /\ module_state = "loaded" =>
       /\ ~Missing(environ.KNOWLEDGE_BASE_ID)
       /\ ~Missing(environ.OPENAI_API_KEY)
       /\ clients = {"bedrock_agent", "openai_client"}
  /\ module_state # "loaded" =>
       /\ clients = {}
       /\ pc = "idle"
       /\ kb_calls = << >>
       /\ llm_calls = << >>
  /\ module_state = "config_error" <=>
       /\ module_state # "unloaded"
       /\ Missing(environ.KNOWLEDGE_BASE_ID) \/ Missing(environ.OPENAI_API_KEY)
  /\ Searched => kb_calls[1].knowledgeBaseId # ""

C16_Witness ==
  /\ module_state = "config_error"
  /\ ~Missing(environ.KNOWLEDGE_BASE_ID)
  /\ environ.OPENAI_API_KEY = <<"">>
  /\ clients = {}

\* the lines that are the exit command: 'quit' in any letter case, with or
\* without whitespace around it
ExitLines == { L_quit, L_QUIT_padded, L_Quit }

\* the lines that are the toggle command
ToggleLines == { L_retrieve, L_Retrieve_padded }

\* C13: the chat session has ended exactly when the line read last is the
\* exit command, and a failed search or generation call is followed by the
\* error report and the next prompt, with the retrieve-only flag unchanged.
C13_OnlyQuitEndsSession ==
  [][ /\ session' = "ended" <=> (line' # << >> /\ line'[1] \in ExitLines)
      /\ (session = "handling" /\ pc = "failed") =>
           /\ session' = "prompt"
           /\ printed' = "Error"
           /\ retrieve_only' = retrieve_only ]_vars

C13_Witness ==
  /\ session = "prompt"
  /\ printed = "Error"
  /\ retrieve_only = TRUE
  /\ line = <<L_quit_now>>

\* C14: chat() starts with the mode off; a toggle command flips the mode
\* with no call to a service, and no other step changes the mode; a query
\* read while the mode is on is handled by retrieve alone, with one search
\* request and no generation request, and a query read while it is off is
\* handled by retrieve_and_generate, which returns its result dict.
C14_ToggleAndModes ==
  [][ /\ session = "off" => retrieve_only' = FALSE
      /\ (session = "prompt" /\ line' # << >> /\ line'[1] \in ToggleLines) =>
           /\ retrieve_only' = ~retrieve_only
           /\ session' = "prompt"
           /\ pc' = "idle"
           /\ kb_calls' = << >>
           /\ llm_calls' = << >>
      /\ (session # "off" /\ ~(session = "prompt" /\ line' # << >> /\ line'[1] \in ToggleLines)) =>
           retrieve_only' = retrieve_only
      /\ session' = "handling" =>
           /\ Len(kb_calls') = 1
           /\ retrieve_only' => (caller' = "retrieve" /\ llm_calls' = << >> /\ result' = << >>)
           /\ ~retrieve_only' => /\ caller' = "retrieve_and_generate"
                                 /\ pc' = "done" => result' # << >>
      /\ (session = "handling" /\ pc = "done") =>
           printed' = IF retrieve_only THEN "Chunks" ELSE "Answer" ]_vars

C14_Witness ==
  /\ session = "handling"
  /\ retrieve_only = TRUE
  /\ pc = "done"
  /\ Len(chunks) = 2
  /\ llm_calls = << >>

\* the positions of the sources of result i of evaluate() that contain at
\* least one identifier banned for case i
DirtySources(i) ==
  LET srcs == results[i].sources_retrieved
      banned == Cases[i].must_not_contain_sources
  IN  { j \in 1..Len(srcs) : \E b \in 1..Len(banned) : In(banned[b], srcs[j]) }

\* C17 as stated: the purity score of every case is 1 minus the number of
\* retrieved sources that contain a banned identifier over the number of
\* retrieved sources (in units of 0.0001), lies between 0 and 1, and is 1
\* when nothing was retrieved.
C17_PurityIsCleanShare ==
  \A i \in 1..Len(results) :
    LET n == Len(results[i].sources_retrieved)
    IN  /\ results[i].purity_score \in 0..10000
        /\ results[i].purity_score =
             IF n = 0 THEN 10000
             ELSE RoundHalfEven(10000 * (n - Cardinality(DirtySources(i))), n)

\* the content of eval_results.json after the last write
Persisted == eval_results_json[Len(eval_results_json)]

\* C18 as stated: when evaluate() has completed, the persisted report holds
\* every per-case result and the aggregate summary.
C18_ReportHoldsResultsAndSummary ==
  eval_pc = "finished" =>
    /\ eval_results_json # << >>
    /\ \A i \in 1..Len(results) : \E k \in DOMAIN Persisted : Persisted[k] = results[i]
    /\ \E k \in DOMAIN Persisted : Persisted[k] = summary[1]

\* C19: the cross_contamination flag of every case is true exactly when
\* some retrieved source contains some identifier banned for the case, and
\* the contamination rate of the summary is the number of such cases over
\* the number of cases.
C19_FlagAndRate ==
  /\ \A i \in 1..Len(results) :
       results[i].cross_contamination <=> DirtySources(i) # {}
  /\ summary # << >> =>
       /\ Len(results) = Len(Cases)
       /\ summary[1].contamination_rate.den = Len(Cases)
       /\ summary[1].contamination_rate.num =
            Cardinality({ i \in 1..Len(results) : DirtySources(i) # {} })

C19_Witness ==
  /\ summary # << >>
  /\ summary[1].contamination_rate = Ratio(1, 2)
  /\ results[1].cross_contamination = FALSE
  /\ results[2].cross_contamination = TRUE
  /\ results[2].contaminated_sources = <<URI_MAP_FW24_FW16>>

\* C22: eval_results.json is written only by the step that completes the
\* run, once, with one result per case in case order; results grows by
\* appending only, so no result changes once it is in the list.
C22_ReportWrittenOnceAtEnd ==
  [][ /\ eval_results_json' # eval_results_json =>
           /\ eval_pc = "generating"
           /\ case_no = Len(Cases)
           /\ eval_pc' = "finished"
      /\ eval_pc' = "finished" =>
           /\ Len(eval_results_json') = 1
           /\ eval_results_json'[1] = results'
           /\ Len(results') = Len(Cases)
           /\ \A i \in 1..Len(Cases) : results'[i].query = Cases[i].query
      /\ eval_pc' # "finished" => eval_results_json' = << >>
      /\ Len(results') >= Len(results)
      /\ SubSeq(results', 1, Len(results)) = results
      /\ Len(results') <= Len(results) + 1 ]_vars

C22_Witness ==
  /\ eval_pc = "finished"
  /\ Len(eval_results_json) = 1
  /\ Len(eval_results_json[1]) = Len(Cases)
  /\ Len(Cases) > 1
  /\ eval_results_json[1][1].chunks_count = 2
  /\ eval_results_json[1][2].chunks_count = 1

\* C26: when a service call of a case fails, the next step leaves
\* evaluate(): no further case is started, no call is made, nothing is
\* written to eval_results.json, and evaluate() does nothing afterwards.
C26_FailureAbortsEvaluation ==
  [][ /\ eval_pc # "aborted"
      /\ pc = "failed" =>
           /\ eval_pc' = "aborted"
           /\ case_no' = case_no
           /\ results' = results
           /\ kb_calls' = << >>
           /\ llm_calls' = << >>
      /\ eval_pc' = "aborted" =>
           /\ pc = "failed"
           /\ Len(results') = case_no' - 1
           /\ summary' = << >>
           /\ eval_results_json' = << >> ]_vars

C26_Witness ==
  /\ eval_pc = "aborted"
  /\ case_no = 2
  /\ Len(results) = 1
  /\ results[1].chunks_count = 1
  /\ eval_results_json = << >>

\* C23: the identifier taken from a query is the same for the query in
\* lower case and in upper case, is in upper case itself, and so are the
\* filter sent and the target of source_match; it is the text of the
\* leftmost place of the query where an identifier begins.
C23_ExtractionIgnoresCase ==
  pc = "search" =>
    /\ fw_id = extract_framework_id(query)
    /\ fw_id = extract_framework_id(lower(query))
    /\ fw_id = extract_framework_id(upper(query))
    /\ ctrl_id = extract_control_id(lower(query))
    /\ ctrl_id = extract_control_id(upper(query))
    /\ fw_id = upper(fw_id)
    /\ SentFilter = RetrievalConfig(lower(query), top_k).vectorSearchConfiguration.filter
    /\ TargetId(query) = TargetId(lower(query))
    /\ TargetId(query) = Identifier
    /\ fw_id # None =>
         \E i \in 1..Len(query) :
           /\ FrameworkMatchEnd(query, i) > 0
           /\ fw_id = upper(SubSeq(query, i, FrameworkMatchEnd(query, i)))
           /\ \A h \in 1..(i - 1) : FrameworkMatchEnd(query, h) = 0 /\ ControlMatchEnd(query, h) = 0

C23_Witness ==
  /\ pc = "search"
  /\ fw_id = ID_FW24
  /\ SubSeq(query, 1, Len(W_fw24)) = W_fw24
  /\ In(W_FW13, query)
  /\ SentFilter = <<FrameworkFilter(ID_FW24)>>

\* C24: the budget of an invocation is the pair the query alone gives; a
\* summarisation request carries the summary budget and temperature 0.0,
\* an answer request carries the answer budget and temperature 0.1.
C24_BudgetUsedUnchanged ==
  budget # << >> =>
    /\ budget[1] = token_budget_for_query(query)
    /\ \A i \in 1..Len(llm_calls) :
         /\ IsSummarizeCall(llm_calls[i]) =>
              /\ llm_calls[i].max_tokens = budget[1].summary_tok
              /\ llm_calls[i].temperature = 0
         /\ IsAnswerCall(llm_calls[i]) =>
              /\ llm_calls[i].max_tokens = budget[1].answer_tok
              /\ llm_calls[i].temperature = 1

C24_Witness ==
  /\ pc = "answer"
  /\ Len(llm_calls) = 2
  /\ llm_calls[1].max_tokens = 3000
  /\ llm_calls[2].max_tokens = 8000
  /\ Len(Passages) = 2

\* C25: in a returned result chunks_used, sources and retrieval_scores have
\* one length: 0 for an empty retrieval, 1 for a use-case query, the number
\* of passages otherwise; entry i of sources and of retrieval_scores are
\* those of the same used passage, and mean_score is the mean of the
\* scores of the used passages, rounded to four places.
C25_ResultFieldsAgree ==
  (caller = "retrieve_and_generate" /\ result # << >>) =>
    LET r == result[1]
        n == IF Passages = << >> THEN 0
             ELSE IF is_usecase_query(query) THEN 1
             ELSE Len(Passages)
    IN  /\ r.chunks_used = n
        /\ Len(r.sources) = n
        /\ Len(r.retrieval_scores) = n
        /\ \A i \in 1..n :
             /\ r.sources[i] = SourceOf(i)
             /\ r.retrieval_scores[i] = Round4(ScoreOf(i))
        /\ r.mean_score =
             IF n = 0 THEN 0
             ELSE RoundHalfEven(Sum([i \in 1..n |-> ScoreOf(i)]), 10 * n)

C25_Witness ==
  /\ caller = "retrieve_and_generate"
  /\ result # << >>
  /\ result[1].chunks_used = 2
  /\ result[1].retrieval_scores = <<9291, 6457>>
  /\ result[1].mean_score = 7874


(***************************************************************************)
(* Concurrent callers.  Every name retrieve() and retrieve_and_generate()  *)
(* assign is a local of the call; the module-level names (the two clients, *)
(* KNOWLEDGE_BASE_ID, _QUERY_TOKEN_PROFILES) are bound once by the module  *)
(* body and only read afterwards.  The variables pc .. result hold the     *)
(* frame of the invocation that runs; the frames of the invocations that   *)
(* wait for a service are parked.                                          *)
(***************************************************************************)
MaxInvocations == 2

Invocations == 1..MaxInvocations

\* "TCO AI-ADF-013"
Q_tco_fw13 == <<"T","C","O"," ","A","I","-","A","D","F","-","0","1","3">>

\* "status"
Q_status == <<"s","t","a","t","u","s">>

\* "List controls AI-CTRL-00001"
Q_list_ctrl1 == <<"L","i","s","t"," ","c","o","n","t","r","o","l","s"," ","A","I","-","C","T","R","L","-","0","0","0","0","1">>

\* the queries the concurrent callers pass, caller by caller
InvocationQueries == << Q_tco_fw13, Q_status, Q_list_ctrl1 >>

InvocationQuery(t) == InvocationQueries[((t - 1) % Len(InvocationQueries)) + 1]

\* the locals of the running invocation
CurrentFrame ==
  [pc |-> pc, caller |-> caller, query |-> query, top_k |-> top_k, fw_id |-> fw_id, ctrl_id |->
  ctrl_id, fired |-> fired, kb_calls |-> kb_calls, llm_calls |-> llm_calls, llm_replies |->
  llm_replies, response |-> response, chunks |-> chunks, budget |-> budget, context |-> context,
  result |-> result]

\* the locals of a caller that has not called yet
IdleFrame ==
  [pc |-> "idle", caller |-> "none", query |-> << >>, top_k |-> 1, fw_id |-> None, ctrl_id |-> None,
  fired |-> << >>, kb_calls |-> << >>, llm_calls |-> << >>, llm_replies |-> << >>, response |-> << >>,
  chunks |-> << >>, budget |-> << >>, context |-> << >>, result |-> << >>]

\* the frame of invocation t
FrameOf(t) == IF t = running THEN CurrentFrame ELSE parked[t]

\* the callers exist, none has called; the module is imported
InitConcurrent ==
  /\ NoInvocation
  /\ environ = [KNOWLEDGE_BASE_ID |-> <<"configured">>, OPENAI_API_KEY |-> <<"configured">>]
  /\ module_state = ModuleBody(environ).state
  /\ clients = ModuleBody(environ).clients
  /\ NoChat
  /\ NoEvaluation
  /\ index = KnowledgeBase
  /\ running = 1
  /\ parked = [t \in Invocations |-> IdleFrame]
  /\ NoIndexer
  /\ NoExporter

\* the running caller calls retrieve_and_generate(query, 1)
ConcurrentCall ==
  /\ running \in Invocations
  /\ Enter("retrieve_and_generate", InvocationQuery(running), 1)
  /\ UNCHANGED outer

\* Resume with the token budgets kept in a module-level name instead of a
\* local: the invocation that resumes finds the pair stored last
Resume_SharedBudget(t) ==
  /\ running \in Invocations
  /\ t \in Invocations \ {running}
  /\ LET f == parked[t]
     IN
       /\ pc' = f.pc
       /\ caller' = f.caller
       /\ query' = f.query
       /\ top_k' = f.top_k
       /\ fw_id' = f.fw_id
       /\ ctrl_id' = f.ctrl_id
       /\ fired' = f.fired
       /\ kb_calls' = f.kb_calls
       /\ llm_calls' = f.llm_calls
       /\ llm_replies' = f.llm_replies
       /\ response' = f.response
       /\ chunks' = f.chunks
       /\ budget' = budget
       /\ context' = f.context
       /\ result' = f.result
  /\ parked' = [parked EXCEPT ![running] = CurrentFrame, ![t] = IdleFrame]
  /\ running' = t
  /\ UNCHANGED <<environ, module_state, clients, session, retrieve_only, line, printed, index, evaluation, indexer, exporter>>

\* the running invocation waits at its external call (or has returned) and
\* invocation t runs on: each goes on with its own locals
Resume(t) ==
  /\ running \in Invocations
  /\ t \in Invocations \ {running}
  /\ LET f == parked[t]
     IN
       /\ pc' = f.pc
       /\ caller' = f.caller
       /\ query' = f.query
       /\ top_k' = f.top_k
       /\ fw_id' = f.fw_id
       /\ ctrl_id' = f.ctrl_id
       /\ fired' = f.fired
       /\ kb_calls' = f.kb_calls
       /\ llm_calls' = f.llm_calls
       /\ llm_replies' = f.llm_replies
       /\ response' = f.response
       /\ chunks' = f.chunks
       /\ budget' = f.budget
       /\ context' = f.context
       /\ result' = f.result
  /\ parked' = [parked EXCEPT ![running] = CurrentFrame, ![t] = IdleFrame]
  /\ running' = t
  /\ UNCHANGED <<environ, module_state, clients, session, retrieve_only, line, printed, index, evaluation, indexer, exporter>>

NextConcurrent ==
  \/ ConcurrentCall
  \/ \E t \in Invocations : Resume(t)
  \/ EmptyRetrieval
  \/ StartSummarize
  \/ StartAnswer
  \/ \E summarised \in Completions : SummarizeReturns(summarised)
  \/ \E answer \in Completions : GenerateReturns(answer)
  \/ SearchRaises
  \/ SummarizeRaises
  \/ GenerateRaises

SpecConcurrent == InitConcurrent /\ [][NextConcurrent]_vars


\* what a solo invocation derives from its query alone, query by query:
\* the retrieval configuration, the branches of the filter, the budgets
\* and the branch of retrieve_and_generate
SoloPlans ==
  [i \in 1..Len(InvocationQueries) |->
     LET q == InvocationQueries[i]
     IN  [config |-> RetrievalConfig(q, 1),
          fired |-> ApplyFilter(extract_framework_id(q), extract_control_id(q)).fired,
          budget |-> token_budget_for_query(q),
          usecase |-> is_usecase_query(q),
          target_id |-> TargetId(q),
          responses |-> RetrievalResults(KnowledgeBase, RetrievalConfig(q, 1))]]

SoloPlan(t) == SoloPlans[((t - 1) % Len(InvocationQueries)) + 1]

\* the passages a solo invocation with the frame's search response works on
SoloPassages(f) == BuildResults(f.response[1])

\* the requests a solo invocation sends to the generation service, given
\* the frame's query, search response and replies
SoloRequests(f, plan) ==
  LET b == plan.budget
      cs == SoloPassages(f)
  IN  IF f.response = << >> \/ cs = << >> THEN << >>
      ELSE IF plan.usecase
      THEN <<SummarizeRequest(cs[1].content, f.query, b.summary_tok)>>
           \o (IF f.llm_replies = << >> THEN << >>
               ELSE <<AnswerRequest(DigestContext(cs[1], f.llm_replies[1]), f.query, b.answer_tok)>>)
      ELSE <<AnswerRequest(JoinContext(cs), f.query, b.answer_tok)>>

\* the dict a solo invocation returns, given the same
SoloResult(f, plan) ==
  LET cs == SoloPassages(f)
      used == IF plan.usecase THEN <<cs[1]>> ELSE cs
  IN  IF cs = << >> THEN EmptyResult
      ELSE [answer |-> f.llm_replies[Len(f.llm_replies)],
            sources |-> Sources(used),
            chunks_used |-> Len(used),
            retrieval_scores |-> [i \in 1..Len(used) |-> Round4(used[i].score)],
            mean_score |-> MeanScore(Scores(used)),
            source_match |-> SourceMatch(plan.target_id, Sources(used))]

\* invocation t has what it would have had running alone
RanAsAlone(t) ==
  LET f == FrameOf(t)
      plan == SoloPlan(t)
  IN  f.pc # "idle" =>
        /\ f.query = InvocationQuery(t)
        /\ f.top_k = 1
        /\ f.kb_calls = << [knowledgeBaseId |-> environ.KNOWLEDGE_BASE_ID[1],
                            retrievalQuery |-> [text |-> f.query],
                            retrievalConfiguration |-> plan.config] >>
        /\ f.fired = plan.fired
        /\ index = KnowledgeBase
        /\ f.response # << >> => f.response[1] \in plan.responses
        /\ f.budget # << >> => f.budget[1] = plan.budget
        /\ f.llm_calls = SoloRequests(f, plan)
        /\ f.result # << >> => f.result[1] = SoloResult(f, plan)
        /\ (f.pc = "done") = (f.result # << >>)

\* C21: when several retrieve_and_generate invocations run concurrently,
\* interleaved at their external calls, the filter, the token budgets, the
\* service requests and the returned result of each are those of a run of
\* that invocation alone against the same service responses; a step of one
\* invocation changes no frame of another, a resumed invocation finds the
\* frame it left, and no step changes the module-level names.
C21_QueryIsolation ==
  [][ /\ \A t \in Invocations : RanAsAlone(t)
      /\ \A t \in Invocations : FrameOf(t)' # FrameOf(t) => (t = running /\ t = running')
      /\ <<environ, module_state, clients, index>>' = <<environ, module_state, clients, index>> ]_vars

\* the first invocation has been resumed and has returned its result while
\* the second, with other budgets, still waits for its answer
C21_Witness ==
  /\ running = 1
  /\ pc = "done"
  /\ Len(llm_calls) = 2
  /\ result # << >>
  /\ parked[2].pc = "answer"
  /\ parked[2].budget # budget
  /\ parked[2].kb_calls[1].retrievalConfiguration # kb_calls[1].retrievalConfiguration


(***************************************************************************)
(* main.py: process_and_index() and bulk_index().  The export files are    *)
(* read line by line; what a line holds is chosen when it is read.  The    *)
(* calls of the S3 client, of the gzip stream and of helpers.bulk may      *)
(* raise.                                                                  *)
(***************************************************************************)
MaxKeys == 2

MaxLines == 3

\* the value of the environment variable BATCH_SIZE in the runs modelled
BATCH_SIZE == 2

DigitChars == <<"0","1","2","3","4","5","6","7","8","9">>

\* str(n) of a natural number
RECURSIVE str(_)
str(n) == IF n < 10 THEN <<DigitChars[n + 1]>> ELSE str(n \div 10) \o <<DigitChars[(n % 10) + 1]>>

\* the lines that are passed over by a `continue`: an empty line, a line
\* without an Item, an item without text, a text that gets no embedding
SkippedLines == {"blank", "no item", "no text", "no embedding"}

\* item.get(PK_FIELD) of the record read as line n: missing, or the key
\* the table gave to the record
PrimaryKeys(n) == { Absent, <<<<"r">> \o str(n)>> }

\* str(item.get(PK_FIELD) or total_docs)
DocId(pk, docs) == IF pk # Absent THEN pk[1] ELSE str(docs)

\* the element appended to batch for the record read as line n
Document(n, pk, docs) == [id |-> DocId(pk, docs), line_no |-> n, pk |-> pk]

\* the index after one bulk request: a document replaces the stored
\* document of the same _id, in the order of the request
RECURSIVE Store(_, _)
Store(stored, docs) ==
  IF docs = << >> THEN stored
  ELSE Store({d \in stored : d.id # Head(docs).id} \cup {Head(docs)}, Tail(docs))

\* main.py is imported and process_and_index() has not been called
InitIndex ==
  /\ NoInvocation
  /\ environ = [KNOWLEDGE_BASE_ID |-> <<"configured">>, OPENAI_API_KEY |-> <<"configured">>]
  /\ module_state = "unloaded"
  /\ clients = {}
  /\ NoChat
  /\ NoEvaluation
  /\ index = KnowledgeBase
  /\ NoPrograms

\* everything but the variables of process_and_index()
NotIndexer ==
  <<pc, caller, query, top_k, fw_id, ctrl_id, fired, kb_calls, llm_calls, llm_replies, response, chunks,
    budget, context, result, environ, module_state, clients, session, retrieve_only, line, printed,
    index, evaluation, running, parked, exporter>>

\* process_and_index() is called: the paginator is created
IndexerStarts ==
  /\ ix_pc = "off"
  /\ ix_pc' = "listing"
  /\ UNCHANGED <<keys_seen, lines_read, total_files, total_docs, batch, embedded, bulk_calls, os_docs>>
  /\ UNCHANGED NotIndexer

\* the next key does not end with ".json.gz"
SkipKey ==
  /\ ix_pc = "listing"
  /\ keys_seen < MaxKeys
  /\ keys_seen' = keys_seen + 1
  /\ UNCHANGED <<ix_pc, lines_read, total_files, total_docs, batch, embedded, bulk_calls, os_docs>>
  /\ UNCHANGED NotIndexer

\* the next key is an export file and get_object / gzip.open succeed
OpenFile ==
  /\ ix_pc = "listing"
  /\ keys_seen < MaxKeys
  /\ keys_seen' = keys_seen + 1
  /\ total_files' = total_files + 1
  /\ ix_pc' = "reading"
  /\ UNCHANGED <<lines_read, total_docs, batch, embedded, bulk_calls, os_docs>>
  /\ UNCHANGED NotIndexer

\* the next key is an export file and get_object raises: logged, next key
OpenRaises ==
  /\ ix_pc = "listing"
  /\ keys_seen < MaxKeys
  /\ keys_seen' = keys_seen + 1
  /\ total_files' = total_files + 1
  /\ UNCHANGED <<ix_pc, lines_read, total_docs, batch, embedded, bulk_calls, os_docs>>
  /\ UNCHANGED NotIndexer

\* a line that is passed over
ReadSkipped(kind) ==
  /\ ix_pc = "reading"
  /\ kind \in SkippedLines
  /\ lines_read < MaxLines
  /\ lines_read' = lines_read + 1
  /\ UNCHANGED <<ix_pc, keys_seen, total_files, total_docs, batch, embedded, bulk_calls, os_docs>>
  /\ UNCHANGED NotIndexer

\* json.loads raises on the line: logged, the rest of the file is left
ReadMalformed ==
  /\ ix_pc = "reading"
  /\ lines_read < MaxLines
  /\ lines_read' = lines_read + 1
  /\ ix_pc' = "listing"
  /\ UNCHANGED <<keys_seen, total_files, total_docs, batch, embedded, bulk_calls, os_docs>>
  /\ UNCHANGED NotIndexer

\* the stream raises while the file is read: logged, the rest is left
ReadRaises ==
  /\ ix_pc = "reading"
  /\ ix_pc' = "listing"
  /\ UNCHANGED <<keys_seen, lines_read, total_files, total_docs, batch, embedded, bulk_calls, os_docs>>
  /\ UNCHANGED NotIndexer

\* the file has no more lines
EndOfFile ==
  /\ ix_pc = "reading"
  /\ ix_pc' = "listing"
  /\ UNCHANGED <<keys_seen, lines_read, total_files, total_docs, batch, embedded, bulk_calls, os_docs>>
  /\ UNCHANGED NotIndexer

\* a record is embedded and appended; the batch is not full yet
ReadRecord(pk) ==
  /\ ix_pc = "reading"
  /\ lines_read < MaxLines
  /\ pk \in PrimaryKeys(lines_read + 1)
  /\ lines_read' = lines_read + 1
  /\ embedded' = embedded \cup {lines_read'}
  /\ batch' = Append(batch, Document(lines_read', pk, total_docs))
  /\ Len(batch') < BATCH_SIZE
  /\ UNCHANGED <<ix_pc, keys_seen, total_files, total_docs, bulk_calls, os_docs>>
  /\ UNCHANGED NotIndexer

\* a record is embedded and appended, the batch is full, bulk_index
\* returns: the count moves on and the batch is emptied
ReadRecordAndFlush(pk) ==
  /\ ix_pc = "reading"
  /\ lines_read < MaxLines
  /\ pk \in PrimaryKeys(lines_read + 1)
  /\ lines_read' = lines_read + 1
  /\ embedded' = embedded \cup {lines_read'}
  /\ LET full == Append(batch, Document(lines_read', pk, total_docs))
     IN  /\ Len(full) >= BATCH_SIZE
         /\ bulk_calls' = Append(bulk_calls, [docs |-> full, outcome |-> "returned"])
         /\ os_docs' = Store(os_docs, full)
         /\ total_docs' = total_docs + Len(full)
  /\ batch' = << >>
  /\ UNCHANGED <<ix_pc, keys_seen, total_files>>
  /\ UNCHANGED NotIndexer

\* a record is embedded and appended, the batch is full, helpers.bulk
\* raises inside the try block: logged as an error of the file, the rest
\* of the file is left, batch and total_docs keep their values
ReadRecordFlushRaises(pk) ==
  /\ ix_pc = "reading"
  /\ lines_read < MaxLines
  /\ pk \in PrimaryKeys(lines_read + 1)
  /\ lines_read' = lines_read + 1
  /\ embedded' = embedded \cup {lines_read'}
  /\ batch' = Append(batch, Document(lines_read', pk, total_docs))
  /\ Len(batch') >= BATCH_SIZE
  /\ bulk_calls' = Append(bulk_calls, [docs |-> batch', outcome |-> "raised"])
  /\ ix_pc' = "listing"
  /\ UNCHANGED <<keys_seen, total_files, total_docs, os_docs>>
  /\ UNCHANGED NotIndexer

\* no more keys, the batch is empty: process_and_index() returns
ReturnNothingLeft ==
  /\ ix_pc = "listing"
  /\ batch = << >>
  /\ ix_pc' = "returned"
  /\ UNCHANGED <<keys_seen, lines_read, total_files, total_docs, batch, embedded, bulk_calls, os_docs>>
  /\ UNCHANGED NotIndexer

\* no more keys: the remaining documents are indexed and
\* process_and_index() returns
FlushRemaining ==
  /\ ix_pc = "listing"
  /\ batch # << >>
  /\ bulk_calls' = Append(bulk_calls, [docs |-> batch, outcome |-> "returned"])
  /\ os_docs' = Store(os_docs, batch)
  /\ total_docs' = total_docs + Len(batch)
  /\ ix_pc' = "returned"
  /\ UNCHANGED <<keys_seen, lines_read, total_files, batch, embedded>>
  /\ UNCHANGED NotIndexer

\* no more keys: helpers.bulk raises on the remaining documents and the
\* exception leaves process_and_index()
FlushRemainingRaises ==
  /\ ix_pc = "listing"
  /\ batch # << >>
  /\ bulk_calls' = Append(bulk_calls, [docs |-> batch, outcome |-> "raised"])
  /\ ix_pc' = "raised"
  /\ UNCHANGED <<keys_seen, lines_read, total_files, total_docs, batch, embedded, os_docs>>
  /\ UNCHANGED NotIndexer

NextIndex ==
  \/ IndexerStarts
  \/ SkipKey
  \/ OpenFile
  \/ OpenRaises
  \/ \E kind \in SkippedLines : ReadSkipped(kind)
  \/ ReadMalformed
  \/ ReadRaises
  \/ EndOfFile
  \/ \E pk \in PrimaryKeys(lines_read + 1) : ReadRecord(pk)
  \/ \E pk \in PrimaryKeys(lines_read + 1) : ReadRecordAndFlush(pk)
  \/ \E pk \in PrimaryKeys(lines_read + 1) : ReadRecordFlushRaises(pk)
  \/ ReturnNothingLeft
  \/ FlushRemaining
  \/ FlushRemainingRaises

SpecIndex == InitIndex /\ [][NextIndex]_vars


\* the calls of bulk_index that carried the record read as line n
Submissions(n) ==
  { i \in 1..Len(bulk_calls) : \E j \in 1..Len(bulk_calls[i].docs) : bulk_calls[i].docs[j].line_no = n }

\* the record read as line n waits in the batch
Batched(n) == \E j \in 1..Len(batch) : batch[j].line_no = n

\* C27: in process_and_index every record that is parsed, non-empty and
\* embedded is submitted to bulk_index exactly once (never twice, and once
\* when the function has returned); every bulk_index call carries at least
\* 1 and at most BATCH_SIZE documents; a record that was batched is not
\* dropped by a later error; nothing is left unflushed at the return.
C27_EachDocumentSubmittedOnce ==
  /\ \A i \in 1..Len(bulk_calls) :
       /\ Len(bulk_calls[i].docs) >= 1
       /\ Len(bulk_calls[i].docs) <= BATCH_SIZE
  /\ \A n \in embedded :
       /\ Cardinality(Submissions(n)) <= 1
       /\ Submissions(n) = {} => Batched(n)
       /\ ix_pc = "returned" => Cardinality(Submissions(n)) = 1

\* every document process_and_index has built so far
AllDocuments ==
  { batch[j] : j \in 1..Len(batch) }
    \cup UNION { { bulk_calls[i].docs[j] : j \in 1..Len(bulk_calls[i].docs) } : i \in 1..Len(bulk_calls) }

\* C28: in process_and_index any two distinct records that lack the
\* primary-key field get distinct document ids, and once both have been
\* indexed both are stored in the index.
C28_KeylessIdsDistinct ==
  \A d1 \in AllDocuments : \A d2 \in AllDocuments :
    (d1.pk = Absent /\ d2.pk = Absent /\ d1.line_no # d2.line_no) =>
       /\ d1.id # d2.id
       /\ (\A i \in 1..Len(bulk_calls) : bulk_calls[i].outcome = "returned") /\ ix_pc = "returned"
            => {d1, d2} \subseteq os_docs


(***************************************************************************)
(* The export pipelines dynamo_to_s3_frameworks.py, dynamo_to_s3_controls  *)
(* .py and dynamo_to_s3_usecase_assessments.py: scan_and_upload(),         *)
(* sync_knowledge_base() and the entry point.  The calls of DynamoDB, S3   *)
(* and Bedrock are the suspension points and may raise; the ingestion job  *)
(* moves on by itself.                                                     *)
(***************************************************************************)
MaxRecords == 2

Pipelines == {"frameworks", "controls", "usecase-assessments"}

\* S3_PREFIX of each script
S3_PREFIX(p) ==
  IF p = "frameworks" THEN <<"f","r","a","m","e","w","o","r","k","s">>
  ELSE IF p = "controls" THEN <<"c","o","n","t","r","o","l","s">>
  ELSE <<"u","s","e","c","a","s","e","-","a","s","s","e","s","s","m","e","n","t","s">>

\* "controls-archive/old.md"
KEY_controls_archive == <<"c","o","n","t","r","o","l","s","-","a","r","c","h","i","v","e","/","o","l","d",".","m","d">>

\* "controls/old.md"
KEY_controls_old == <<"c","o","n","t","r","o","l","s","/","o","l","d",".","m","d">>

\* "frameworks/old.md"
KEY_frameworks_old == <<"f","r","a","m","e","w","o","r","k","s","/","o","l","d",".","m","d">>

\* the objects the bucket may hold before a run, in the order S3 lists keys
ExistingKeys == << KEY_controls_archive, KEY_controls_old, KEY_frameworks_old >>

StartsWith(prefix, key) == Len(key) >= Len(prefix) /\ SubSeq(key, 1, Len(prefix)) = prefix

\* the keys paginate(Bucket, Prefix=prefix) yields
Listing(keys, prefix) ==
  LET Listed(k) == k \in keys /\ StartsWith(prefix, k)
  IN  SelectSeq(ExistingKeys, Listed)

\* the record scanned at position i: without an id attribute, or with its own
Records(i) == { [id |-> Absent], [id |-> <<<<"r">> \o str(i)>>] }

\* the non-empty results of the table scan
Scans ==
  UNION { { s \in [1..n -> UNION { Records(i) : i \in 1..n }] : \A i \in 1..n : s[i] \in Records(i) }
          : n \in 1..MaxRecords }

\* record.get("id", f"unknown-{uploaded}")
RecordId(record, n) ==
  IF record.id # Absent THEN record.id[1] ELSE <<"u","n","k","n","o","w","n","-">> \o str(n)

\* f"{S3_PREFIX}/{record_id}.md"
UploadKey(p, record, n) == S3_PREFIX(p) \o <<"/">> \o RecordId(record, n) \o <<".","m","d">>

\* the statuses that end the polling loop
TerminalStatuses == {"COMPLETE", "FAILED", "STOPPED"}

\* the script is about to run against a bucket
InitExport ==
  /\ NoInvocation
  /\ environ = [KNOWLEDGE_BASE_ID |-> <<"configured">>, OPENAI_API_KEY |-> <<"configured">>]
  /\ module_state = "unloaded"
  /\ clients = {}
  /\ NoChat
  /\ NoEvaluation
  /\ index = KnowledgeBase
  /\ running = 0
  /\ parked = << >>
  /\ NoIndexer
  /\ ex_pc = "off"
  /\ pipeline \in Pipelines
  /\ bucket \in SUBSET { ExistingKeys[i] : i \in 1..Len(ExistingKeys) }
  /\ all_items = << >>
  /\ delete_objects = << >>
  /\ next_item = 1
  /\ uploaded = 0
  /\ count = << >>
  /\ s3_ops = << >>
  /\ jobs_started = 0
  /\ job_status = "NONE"
  /\ status = "NONE"
  /\ sync_result = << >>

\* everything but the variables of the export pipeline
NotExporter ==
  <<pc, caller, query, top_k, fw_id, ctrl_id, fired, kb_calls, llm_calls, llm_replies, response, chunks,
    budget, context, result, environ, module_state, clients, session, retrieve_only, line, printed,
    index, evaluation, running, parked, indexer>>

\* the entry point calls scan_and_upload(): the table scan is requested
ExportStarts ==
  /\ ex_pc = "off"
  /\ ex_pc' = "scanning"
  /\ UNCHANGED <<pipeline, bucket, all_items, delete_objects, next_item, uploaded, count, s3_ops, jobs_started, job_status, status, sync_result>>
  /\ UNCHANGED NotExporter

\* the scan returns no record: scan_and_upload() returns 0
ScanEmpty ==
  /\ ex_pc = "scanning"
  /\ all_items' = << >>
  /\ count' = <<0>>
  /\ ex_pc' = "counted"
  /\ UNCHANGED <<pipeline, bucket, delete_objects, next_item, uploaded, s3_ops, jobs_started, job_status, status, sync_result>>
  /\ UNCHANGED NotExporter

\* the scan returns records: the objects under the prefix are listed
ScanReturns(items) ==
  /\ ex_pc = "scanning"
  /\ items \in Scans
  /\ all_items' = items
  /\ ex_pc' = "listing"
  /\ UNCHANGED <<pipeline, bucket, delete_objects, next_item, uploaded, count, s3_ops, jobs_started, job_status, status, sync_result>>
  /\ UNCHANGED NotExporter

\* the scan raises: the exception leaves the script
ScanRaises ==
  /\ ex_pc = "scanning"
  /\ ex_pc' = "raised"
  /\ UNCHANGED <<pipeline, bucket, all_items, delete_objects, next_item, uploaded, count, s3_ops, jobs_started, job_status, status, sync_result>>
  /\ UNCHANGED NotExporter

\* the listing returns: the keys found are collected; with none the
\* upload loop starts
ListReturns ==
  /\ ex_pc = "listing"
  /\ delete_objects' = Listing(bucket, S3_PREFIX(pipeline) \o <<"/">>)
  /\ ex_pc' = IF delete_objects' # << >> THEN "deleting" ELSE "uploading"
  /\ UNCHANGED <<pipeline, bucket, all_items, next_item, uploaded, count, s3_ops, jobs_started, job_status, status, sync_result>>
  /\ UNCHANGED NotExporter

\* delete_objects returns (fewer than 1000 keys are listed: one call)
DeleteReturns ==
  /\ ex_pc = "deleting"
  /\ s3_ops' = Append(s3_ops, [op |-> "delete_objects", keys |-> delete_objects, ok |-> TRUE])
  /\ bucket' = bucket \ { delete_objects[i] : i \in 1..Len(delete_objects) }
  /\ ex_pc' = "uploading"
  /\ UNCHANGED <<pipeline, all_items, delete_objects, next_item, uploaded, count, jobs_started, job_status, status, sync_result>>
  /\ UNCHANGED NotExporter

\* the listing or delete_objects raises: the exception leaves the script
ClearRaises ==
  /\ ex_pc \in {"listing", "deleting"}
  /\ ex_pc' = "raised"
  /\ UNCHANGED <<pipeline, bucket, all_items, delete_objects, next_item, uploaded, count, s3_ops, jobs_started, job_status, status, sync_result>>
  /\ UNCHANGED NotExporter

\* UploadRaises that leaves the loop at the first failure
UploadRaises_Abort ==
  /\ ex_pc = "uploading"
  /\ next_item <= Len(all_items)
  /\ s3_ops' = Append(s3_ops, [op |-> "put_object",
                               keys |-> <<UploadKey(pipeline, all_items[next_item], uploaded)>>,
                               ok |-> FALSE])
  /\ next_item' = Len(all_items) + 1
  /\ UNCHANGED <<ex_pc, pipeline, bucket, all_items, delete_objects, uploaded, count, jobs_started, job_status, status, sync_result>>
  /\ UNCHANGED NotExporter

\* put_object returns for the next record: it is counted
UploadReturns ==
  /\ ex_pc = "uploading"
  /\ next_item <= Len(all_items)
  /\ LET key == UploadKey(pipeline, all_items[next_item], uploaded)
     IN  /\ s3_ops' = Append(s3_ops, [op |-> "put_object", keys |-> <<key>>, ok |-> TRUE])
         /\ bucket' = bucket \cup {key}
  /\ uploaded' = uploaded + 1
  /\ next_item' = next_item + 1
  /\ UNCHANGED <<ex_pc, pipeline, all_items, delete_objects, count, jobs_started, job_status, status, sync_result>>
  /\ UNCHANGED NotExporter

\* put_object raises for the next record: reported, the loop goes on
UploadRaises ==
  /\ ex_pc = "uploading"
  /\ next_item <= Len(all_items)
  /\ s3_ops' = Append(s3_ops, [op |-> "put_object",
                               keys |-> <<UploadKey(pipeline, all_items[next_item], uploaded)>>,
                               ok |-> FALSE])
  /\ next_item' = next_item + 1
  /\ UNCHANGED <<ex_pc, pipeline, bucket, all_items, delete_objects, uploaded, count, jobs_started, job_status, status, sync_result>>
  /\ UNCHANGED NotExporter

\* the loop is over: scan_and_upload() returns uploaded
ScanAndUploadReturns ==
  /\ ex_pc = "uploading"
  /\ next_item > Len(all_items)
  /\ count' = <<uploaded>>
  /\ ex_pc' = "counted"
  /\ UNCHANGED <<pipeline, bucket, all_items, delete_objects, next_item, uploaded, s3_ops, jobs_started, job_status, status, sync_result>>
  /\ UNCHANGED NotExporter

\* `if count and count > 0` is false: no sync
EntrySkipsSync ==
  /\ ex_pc = "counted"
  /\ ~(count[1] # 0 /\ count[1] > 0)
  /\ ex_pc' = "finished"
  /\ UNCHANGED <<pipeline, bucket, all_items, delete_objects, next_item, uploaded, count, s3_ops, jobs_started, job_status, status, sync_result>>
  /\ UNCHANGED NotExporter

\* SyncStarts without the test of count
SyncStarts_Unconditional ==
  /\ ex_pc = "counted"
  /\ jobs_started' = jobs_started + 1
  /\ job_status' = "STARTING"
  /\ ex_pc' = "polling"
  /\ UNCHANGED <<pipeline, bucket, all_items, delete_objects, next_item, uploaded, count, s3_ops, status, sync_result>>
  /\ UNCHANGED NotExporter

\* sync_knowledge_base() is called and start_ingestion_job returns
SyncStarts ==
  /\ ex_pc = "counted"
  /\ count[1] # 0 /\ count[1] > 0
  /\ jobs_started' = jobs_started + 1
  /\ job_status' = "STARTING"
  /\ ex_pc' = "polling"
  /\ UNCHANGED <<pipeline, bucket, all_items, delete_objects, next_item, uploaded, count, s3_ops, status, sync_result>>
  /\ UNCHANGED NotExporter

\* start_ingestion_job raises: no job, the exception leaves the script
StartRaises ==
  /\ ex_pc = "counted"
  /\ count[1] # 0 /\ count[1] > 0
  /\ ex_pc' = "raised"
  /\ UNCHANGED <<pipeline, bucket, all_items, delete_objects, next_item, uploaded, count, s3_ops, jobs_started, job_status, status, sync_result>>
  /\ UNCHANGED NotExporter

\* the ingestion job moves on in the service
JobAdvances ==
  /\ \/ job_status = "STARTING" /\ job_status' = "IN_PROGRESS"
     \/ job_status = "IN_PROGRESS" /\ job_status' \in {"COMPLETE", "FAILED", "STOPPING"}
     \/ job_status = "STOPPING" /\ job_status' = "STOPPED"
  /\ UNCHANGED <<ex_pc, pipeline, bucket, all_items, delete_objects, next_item, uploaded, count, s3_ops, jobs_started, status, sync_result>>
  /\ UNCHANGED NotExporter

\* get_ingestion_job reports a status that does not end the loop: sleep
PollPending ==
  /\ ex_pc = "polling"
  /\ job_status \notin TerminalStatuses
  /\ status' = job_status
  /\ UNCHANGED <<ex_pc, pipeline, bucket, all_items, delete_objects, next_item, uploaded, count, s3_ops, jobs_started, job_status, sync_result>>
  /\ UNCHANGED NotExporter

\* get_ingestion_job reports COMPLETE, FAILED or STOPPED: the loop ends and
\* sync_knowledge_base() returns the status
PollReturns ==
  /\ ex_pc = "polling"
  /\ job_status \in TerminalStatuses
  /\ status' = job_status
  /\ sync_result' = <<status'>>
  /\ ex_pc' = "finished"
  /\ UNCHANGED <<pipeline, bucket, all_items, delete_objects, next_item, uploaded, count, s3_ops, jobs_started, job_status>>
  /\ UNCHANGED NotExporter

\* get_ingestion_job raises: the exception leaves the script
PollRaises ==
  /\ ex_pc = "polling"
  /\ ex_pc' = "raised"
  /\ UNCHANGED <<pipeline, bucket, all_items, delete_objects, next_item, uploaded, count, s3_ops, jobs_started, job_status, status, sync_result>>
  /\ UNCHANGED NotExporter

NextExport ==
  \/ ExportStarts
  \/ ScanEmpty
  \/ \E items \in Scans : ScanReturns(items)
  \/ ScanRaises
  \/ ListReturns
  \/ DeleteReturns
  \/ ClearRaises
  \/ UploadReturns
  \/ UploadRaises
  \/ ScanAndUploadReturns
  \/ EntrySkipsSync
  \/ SyncStarts
  \/ StartRaises
  \/ JobAdvances
  \/ PollPending
  \/ PollReturns
  \/ PollRaises

SpecExport == InitExport /\ [][NextExport]_vars

\* the polling loop keeps running: a poll that would end it is made
SpecExportLive == InitExport /\ [][NextExport]_vars /\ WF_vars(PollReturns)


\* the prefix the running pipeline lists and writes under
OwnPrefix == S3_PREFIX(pipeline) \o <<"/">>

\* the positions in s3_ops of the put_object calls
PutCalls == { i \in 1..Len(s3_ops) : s3_ops[i].op = "put_object" }

\* ... and of those that returned
PutsDone == { i \in PutCalls : s3_ops[i].ok }

\* C30: scan_and_upload deletes only keys under the pipeline's own prefix
\* and only after a scan that returned a record (after an empty scan it
\* returns 0 and has called S3 for nothing); no delete_objects call follows
\* a put_object call; every record is tried, in order, whether or not an
\* earlier upload failed; the value returned is the number of put_object
\* calls that returned.
C30_ClearThenUploadAll ==
  /\ \A i \in 1..Len(s3_ops) :
       s3_ops[i].op = "delete_objects" =>
         /\ all_items # << >>
         /\ \A j \in 1..Len(s3_ops[i].keys) : StartsWith(OwnPrefix, s3_ops[i].keys[j])
         /\ \A h \in 1..(i - 1) : s3_ops[h].op # "put_object"
  /\ (count # << >> /\ all_items = << >>) => (count = <<0>> /\ s3_ops = << >>)
  /\ ex_pc = "uploading" => Cardinality(PutCalls) = next_item - 1
  /\ count # << >> =>
       /\ Cardinality(PutCalls) = Len(all_items)
       /\ count[1] = Cardinality(PutsDone)
  /\ \A i \in PutCalls : \E n \in 0..Len(all_items) :
       s3_ops[i].keys = <<UploadKey(pipeline, all_items[Cardinality({h \in PutCalls : h <= i})], n)>>

\* the controls pipeline has cleared its prefix, kept the object under
\* "controls-archive/", failed on the first record and uploaded the second
C30_Witness ==
  /\ pipeline = "controls"
  /\ count = <<1>>
  /\ Len(s3_ops) = 3
  /\ s3_ops[1] = [op |-> "delete_objects", keys |-> <<KEY_controls_old>>, ok |-> TRUE]
  /\ ~s3_ops[2].ok
  /\ s3_ops[3].ok
  /\ KEY_controls_archive \in bucket
  /\ KEY_controls_old \notin bucket

\* C29: sync_knowledge_base starts one ingestion job; it returns only a
\* status COMPLETE, FAILED or STOPPED, the one it polled last and the job
\* has; the entry point starts ingestion only after scan_and_upload
\* returned a count of at least one uploaded document; and once the job
\* has one of the three statuses the polling loop ends.
C29_SyncPollsUntilTerminal ==
  /\ [](/\ jobs_started <= 1
        /\ ex_pc = "polling" => jobs_started = 1
        /\ sync_result # << >> =>
             /\ jobs_started = 1
             /\ sync_result[1] \in TerminalStatuses
             /\ sync_result[1] = status
             /\ sync_result[1] = job_status
        /\ (ex_pc = "finished" /\ jobs_started = 1) => sync_result # << >>
        /\ jobs_started > 0 =>
             /\ count # << >>
             /\ count[1] >= 1
             /\ Cardinality(PutsDone) >= 1)
  /\ ((ex_pc = "polling" /\ job_status \in TerminalStatuses) ~> (ex_pc # "polling"))

\* the sync returned STOPPED after a run in which one of two uploads failed
C29_Witness ==
  /\ ex_pc = "finished"
  /\ sync_result = <<"STOPPED">>
  /\ jobs_started = 1
  /\ count = <<1>>
  /\ Len(all_items) = 2

====
